---- MODULE Spec2Model ----
(***************************************************************************)
(* Chess rules engine of custom-chess: position state (gameState.js),      *)
(* move generator (moveGenerator.js), game rules (gameRules.js), move      *)
(* executor (moveExecutor.js), peer replay (gameState.js) and the click    *)
(* handler of main.js.  Rows and columns are the code's: row 0 is rank 8,  *)
(* row 7 is rank 1, col 0 is file a.                                       *)
(***************************************************************************)
EXTENDS Integers, Sequences, FiniteSets, TLC

VARIABLES gameState, dispatched, synced, orphans, pending, net

vars == <<gameState, dispatched, synced, orphans, pending, net>>

(***************************************************************************)
(* Values                                                                  *)
(***************************************************************************)
\* JavaScript's undefined, for the optional keys of a move record
Undefined == "undefined"
\* gameResult: null
Null == "null"
\* an empty square (board[r][c] === null)
NoPiece == [type |-> "_", color |-> "none", hasMoved |-> FALSE]
\* lastMove: null
NoLastMove == [piece |-> NoPiece, fromRow |-> -1, fromCol |-> -1, toRow |-> -1, toCol |-> -1]
\* selectedSquare: null
NoSquare == [row |-> -1, col |-> -1]

Truthy(piece) == piece.type # "_"

Abs(x) == IF x < 0 THEN -x ELSE x

Opponent(color) == IF color = "white" THEN "black" ELSE "white"

BackRank == <<"r", "n", "b", "q", "k", "b", "n", "r">>

StartBoard ==
  [row \in 0..7 |-> [col \in 0..7 |->
     CASE row = 0 -> [type |-> BackRank[col + 1], color |-> "black", hasMoved |-> FALSE]
       [] row = 1 -> [type |-> "p", color |-> "black", hasMoved |-> FALSE]
       [] row = 6 -> [type |-> "p", color |-> "white", hasMoved |-> FALSE]
       [] row = 7 -> [type |-> BackRank[col + 1], color |-> "white", hasMoved |-> FALSE]
       [] OTHER -> NoPiece]]

FullCastling == [kingside |-> TRUE, queenside |-> TRUE]

InitialTime == 600000

\* gameState after initializeBoard()
initializeBoard ==
  [board |-> StartBoard,
   selectedSquare |-> NoSquare,
   legalMoves |-> {},
   lastMove |-> NoLastMove,
   turn |-> "white",
   gameOver |-> FALSE,
   gameResult |-> Null,
   gameHasStarted |-> FALSE,
   moveCount |-> 0,
   moveHistory |-> <<>>,
   positionHistory |-> <<>>,
   players |-> [color \in {"white", "black"} |->
                  [captures |-> <<>>, timeRemaining |-> InitialTime, timerInterval |-> Null,
                   timerStartTime |-> Null, castling |-> FullCastling]]]

(***************************************************************************)
(* Move generator                                                          *)
(*                                                                         *)
(* Every operation takes the gameState record it reads (the code reads the *)
(* module's singleton).  A move list is the set of its entries: no         *)
(* generator pushes the same entry twice, and the code only filters,       *)
(* searches and counts the lists.                                          *)
(***************************************************************************)
isValidSquare(row, col) == row >= 0 /\ row <= 7 /\ col >= 0 /\ col <= 7

\* gameState.board[row]?.[col]: undefined (falsy) off the board
At(gs, row, col) == IF isValidSquare(row, col) THEN gs.board[row][col] ELSE NoPiece

\* a candidate move { row, col } of the generator
Mv(row, col) == [row |-> row, col |-> col, isCastling |-> FALSE, isEnPassant |-> FALSE, rookCol |-> -1]

\* IsDoubleStep with the distance test dropped: any pawn move opens the en-passant window
IsPawnMove(lm) == Truthy(lm.piece) /\ lm.piece.type = "p"

IsDoubleStep(lm) == Truthy(lm.piece) /\ lm.piece.type = "p" /\ Abs(lm.toRow - lm.fromRow) = 2

getPawnMoves(gs, row, col, color) ==
  LET direction == IF color = "white" THEN -1 ELSE 1
      startRow == IF color = "white" THEN 6 ELSE 1
      forward ==
        IF ~Truthy(At(gs, row + direction, col))
        THEN {Mv(row + direction, col)} \cup
             (IF row = startRow /\ ~Truthy(At(gs, row + 2 * direction, col))
              THEN {Mv(row + 2 * direction, col)} ELSE {})
        ELSE {}
      diagonal ==
        {Mv(row + direction, col + offset) :
           offset \in {o \in {-1, 1} :
                         LET targetPiece == At(gs, row + direction, col + o)
                         IN Truthy(targetPiece) /\ targetPiece.color # color}}
      enPassantRow == IF color = "white" THEN 3 ELSE 4
      enPassant ==
        IF IsDoubleStep(gs.lastMove) /\ row = enPassantRow /\ Abs(col - gs.lastMove.toCol) = 1
        THEN {[row |-> row + direction, col |-> gs.lastMove.toCol,
               isCastling |-> FALSE, isEnPassant |-> TRUE, rookCol |-> -1]}
        ELSE {}
  IN forward \cup diagonal \cup enPassant

RECURSIVE SlideFrom(_, _, _, _, _, _)
\* the while loop of getSlidingMoves for one direction, from (newRow, newCol)
SlideFrom(gs, color, newRow, newCol, dr, dc) ==
  IF ~isValidSquare(newRow, newCol) THEN {}
  ELSE LET targetPiece == gs.board[newRow][newCol]
       IN IF Truthy(targetPiece)
          THEN (IF targetPiece.color # color THEN {Mv(newRow, newCol)} ELSE {})
          ELSE {Mv(newRow, newCol)} \cup SlideFrom(gs, color, newRow + dr, newCol + dc, dr, dc)

getSlidingMoves(gs, row, col, directions) ==
  UNION {SlideFrom(gs, gs.board[row][col].color, row + d[1], col + d[2], d[1], d[2]) : d \in directions}

RookDirections == {<<0, 1>>, <<0, -1>>, <<1, 0>>, <<-1, 0>>}
BishopDirections == {<<1, 1>>, <<1, -1>>, <<-1, 1>>, <<-1, -1>>}

getRookMoves(gs, row, col) == getSlidingMoves(gs, row, col, RookDirections)
getBishopMoves(gs, row, col) == getSlidingMoves(gs, row, col, BishopDirections)
getQueenMoves(gs, row, col) == getSlidingMoves(gs, row, col, RookDirections \cup BishopDirections)

KnightOffsets == {<<-2, -1>>, <<-2, 1>>, <<-1, -2>>, <<-1, 2>>, <<1, -2>>, <<1, 2>>, <<2, -1>>, <<2, 1>>}
KingOffsets == {<<-1, -1>>, <<-1, 0>>, <<-1, 1>>, <<0, -1>>, <<0, 1>>, <<1, -1>>, <<1, 0>>, <<1, 1>>}

\* the offset-table loop shared by getKnightMoves and getKingMovesBasic
StepMoves(gs, row, col, offsets) ==
  {Mv(row + o[1], col + o[2]) :
     o \in {d \in offsets :
              /\ isValidSquare(row + d[1], col + d[2])
              /\ LET targetPiece == gs.board[row + d[1]][col + d[2]]
                 IN ~Truthy(targetPiece) \/ targetPiece.color # gs.board[row][col].color}}

\* getKnightMoves with the offset [-2, 1] missing from its table
getKnightMovesShortTable(gs, row, col) == StepMoves(gs, row, col, KnightOffsets \ {<<-2, 1>>})

getKnightMoves(gs, row, col) == StepMoves(gs, row, col, KnightOffsets)

CastleMv(row, col, rookCol) ==
  [row |-> row, col |-> col, isCastling |-> TRUE, isEnPassant |-> FALSE, rookCol |-> rookCol]

IsUnmovedRook(p) == Truthy(p) /\ p.type = "r" /\ ~p.hasMoved

getKingMovesBasic(gs, row, col, includeCastling) ==
  StepMoves(gs, row, col, KingOffsets) \cup
  (IF includeCastling /\ ~gs.board[row][col].hasMoved
   THEN (IF /\ IsUnmovedRook(gs.board[row][7])
            /\ ~Truthy(gs.board[row][5]) /\ ~Truthy(gs.board[row][6])
         THEN {CastleMv(row, 6, 7)} ELSE {})
        \cup
        (IF /\ IsUnmovedRook(gs.board[row][0])
            /\ ~Truthy(gs.board[row][1]) /\ ~Truthy(gs.board[row][2]) /\ ~Truthy(gs.board[row][3])
         THEN {CastleMv(row, 2, 0)} ELSE {})
   ELSE {})

getPieceMoves(gs, row, col, type, color, includeCastling) ==
  CASE type = "p" -> getPawnMoves(gs, row, col, color)
    [] type = "r" -> getRookMoves(gs, row, col)
    [] type = "n" -> getKnightMoves(gs, row, col)
    [] type = "b" -> getBishopMoves(gs, row, col)
    [] type = "q" -> getQueenMoves(gs, row, col)
    [] type = "k" -> getKingMovesBasic(gs, row, col, includeCastling)
    [] OTHER -> {}

(***************************************************************************)
(* Game rules                                                              *)
(***************************************************************************)
Squares == {<<row, col>> : row \in 0..7, col \in 0..7}

KingSquares(gs, color) ==
  {sq \in Squares : gs.board[sq[1]][sq[2]].type = "k" /\ gs.board[sq[1]][sq[2]].color = color}

\* first king of the colour in row-major order, NoSquare when there is none
findKing(gs, color) ==
  LET ks == KingSquares(gs, color)
  IN IF ks = {} THEN NoSquare
     ELSE LET first == CHOOSE sq \in ks :
                         \A other \in ks : sq[1] * 8 + sq[2] <= other[1] * 8 + other[2]
          IN [row |-> first[1], col |-> first[2]]

isSquareUnderAttack(gs, row, col, byColor) ==
  \E r \in 0..7, c \in 0..7 :
     LET piece == gs.board[r][c]
     IN /\ Truthy(piece)
        /\ piece.color = byColor
        /\ \E move \in getPieceMoves(gs, r, c, piece.type, piece.color, FALSE) :
              move.row = row /\ move.col = col

isKingInCheck(gs, color) ==
  LET king == findKing(gs, color)
  IN IF king = NoSquare THEN FALSE
     ELSE isSquareUnderAttack(gs, king.row, king.col, Opponent(color))

\* the board while wouldMoveCauseCheck has the move made temporarily; the function
\* puts every square back before it returns, so only its result is kept
TrialBoard(gs, fromRow, fromCol, toRow, toCol, moveData) ==
  LET piece == gs.board[fromRow][fromCol]
      moved == [gs.board EXCEPT ![toRow][toCol] = piece, ![fromRow][fromCol] = NoPiece]
  IN IF moveData.isEnPassant THEN [moved EXCEPT ![fromRow][toCol] = NoPiece] ELSE moved

\* wouldMoveCauseCheck that finds every move safe
wouldMoveNeverCauseCheck(gs, fromRow, fromCol, toRow, toCol, moveData) == FALSE

wouldMoveCauseCheck(gs, fromRow, fromCol, toRow, toCol, moveData) ==
  isKingInCheck([gs EXCEPT !.board = TrialBoard(gs, fromRow, fromCol, toRow, toCol, moveData)],
                gs.board[fromRow][fromCol].color)

\* the restore block that leaves the pawn passed en passant off the board
RestoredBoardWithoutVictim(gs, trial, fromRow, fromCol, toRow, toCol, moveData) ==
  [trial EXCEPT ![fromRow][fromCol] = gs.board[fromRow][fromCol],
                ![toRow][toCol] = gs.board[toRow][toCol]]

\* the board when wouldMoveCauseCheck returns: the restore block writes the saved
\* piece, capturedPiece, originalHasMoved and enPassantVictim (read from gs, the state
\* at the call) over the board the trial left
RestoredBoard(gs, trial, fromRow, fromCol, toRow, toCol, moveData) ==
  LET piece == gs.board[fromRow][fromCol]
      capturedPiece == gs.board[toRow][toCol]
      originalHasMoved == piece.hasMoved
      enPassantVictim == gs.board[fromRow][toCol]
      origin == [trial EXCEPT ![fromRow][fromCol] = piece]
      target == [origin EXCEPT ![toRow][toCol] = capturedPiece]
      flagged == [target EXCEPT ![fromRow][fromCol].hasMoved = originalHasMoved]
  IN IF moveData.isEnPassant
     THEN [flagged EXCEPT ![fromRow][toCol] = enPassantVictim]
     ELSE flagged

getKingMoves(gs, row, col) ==
  LET piece == gs.board[row][col]
      opponentColor == Opponent(piece.color)
  IN getKingMovesBasic(gs, row, col, FALSE) \cup
     (IF ~piece.hasMoved /\ ~isKingInCheck(gs, piece.color)
      THEN (IF /\ IsUnmovedRook(gs.board[row][7])
               /\ ~Truthy(gs.board[row][5]) /\ ~Truthy(gs.board[row][6])
               /\ ~isSquareUnderAttack(gs, row, 5, opponentColor)
               /\ ~isSquareUnderAttack(gs, row, 6, opponentColor)
            THEN {CastleMv(row, 6, 7)} ELSE {})
           \cup
           (IF /\ IsUnmovedRook(gs.board[row][0])
               /\ ~Truthy(gs.board[row][1]) /\ ~Truthy(gs.board[row][2]) /\ ~Truthy(gs.board[row][3])
               /\ ~isSquareUnderAttack(gs, row, 2, opponentColor)
               /\ ~isSquareUnderAttack(gs, row, 3, opponentColor)
            THEN {CastleMv(row, 2, 0)} ELSE {})
      ELSE {})

\* the candidates of getLegalMoves before the self-check filter
PseudoLegalMoves(gs, row, col) ==
  LET piece == gs.board[row][col]
  IN CASE piece.type = "p" -> getPawnMoves(gs, row, col, piece.color)
       [] piece.type = "r" -> getRookMoves(gs, row, col)
       [] piece.type = "n" -> getKnightMoves(gs, row, col)
       [] piece.type = "b" -> getBishopMoves(gs, row, col)
       [] piece.type = "q" -> getQueenMoves(gs, row, col)
       [] piece.type = "k" -> getKingMoves(gs, row, col)
       [] OTHER -> {}

\* getLegalMoves without the self-check filter
getLegalMovesUnfiltered(gs, row, col) ==
  IF ~Truthy(gs.board[row][col]) THEN {} ELSE PseudoLegalMoves(gs, row, col)

getLegalMoves(gs, row, col) ==
  IF ~Truthy(gs.board[row][col]) THEN {}
  ELSE {move \in PseudoLegalMoves(gs, row, col) :
          ~wouldMoveCauseCheck(gs, row, col, move.row, move.col, move)}

hasAnyLegalMoves(gs, color) ==
  \E row \in 0..7, col \in 0..7 :
     /\ Truthy(gs.board[row][col])
     /\ gs.board[row][col].color = color
     /\ getLegalMoves(gs, row, col) # {}

\* isCheckmate that tests the check of the other king
isCheckmateOtherKing(gs, color) == isKingInCheck(gs, Opponent(color)) /\ ~hasAnyLegalMoves(gs, color)

isCheckmate(gs, color) == isKingInCheck(gs, color) /\ ~hasAnyLegalMoves(gs, color)

isStalemate(gs, color) == ~isKingInCheck(gs, color) /\ ~hasAnyLegalMoves(gs, color)

(***************************************************************************)
(* Position signature, repetition, insufficient material                   *)
(***************************************************************************)
\* The signature string, kept as its fields: per square `${row}${col}${color}${type}` plus
\* '1'/'0' for kings and rooks (or `${row}${col}_`), then `ep${row}${col}`, then `_${turn}`.
\* Every field has a fixed width, so two strings are equal iff their fields are.
getPositionSignature(gs) ==
  [squares |-> [row \in 0..7 |-> [col \in 0..7 |->
                  LET piece == gs.board[row][col]
                  IN IF Truthy(piece)
                     THEN <<piece.color, piece.type,
                            IF piece.type = "k" \/ piece.type = "r"
                            THEN (IF piece.hasMoved THEN "1" ELSE "0") ELSE "">>
                     ELSE <<"_", "", "">>]],
   ep |-> IF IsDoubleStep(gs.lastMove)
          THEN [row |-> IF gs.lastMove.piece.color = "white" THEN 3 ELSE 4, col |-> gs.lastMove.toCol]
          ELSE NoSquare,
   turn |-> gs.turn]

CountOf(history, signature) ==
  Cardinality({i \in 1..Len(history) : history[i] = signature})

\* isThreefoldRepetition that is satisfied by one earlier occurrence
isTwofoldRepetition(gs) ==
  CountOf(gs.positionHistory, getPositionSignature(gs)) >= 1

isThreefoldRepetition(gs) ==
  CountOf(gs.positionHistory, getPositionSignature(gs)) >= 2

\* squares of the non-king pieces of a colour
NonKings(gs, color) ==
  {sq \in Squares : LET p == gs.board[sq[1]][sq[2]]
                    IN Truthy(p) /\ p.color = color /\ p.type # "k"}

TypeAt(gs, sq) == gs.board[sq[1]][sq[2]].type

\* BishopSquareColor that finds every bishop on a dark square
BishopSquareAlwaysDark(gs, color) == "dark"

\* 'dark' / 'light' of the last bishop of the colour in row-major order, Null when none
BishopSquareColor(gs, color) ==
  LET bs == {sq \in Squares : LET p == gs.board[sq[1]][sq[2]]
                              IN Truthy(p) /\ p.type = "b" /\ p.color = color}
  IN IF bs = {} THEN Null
     ELSE LET last == CHOOSE sq \in bs : \A o \in bs : o[1] * 8 + o[2] <= sq[1] * 8 + sq[2]
          IN IF (last[1] + last[2]) % 2 = 1 THEN "dark" ELSE "light"

hasInsufficientMaterial(gs) ==
  LET whiteNonKings == NonKings(gs, "white")
      blackNonKings == NonKings(gs, "black")
      nW == Cardinality(whiteNonKings)
      nB == Cardinality(blackNonKings)
      Single(set, type) == Cardinality(set) = 1 /\ \A sq \in set : TypeAt(gs, sq) = type
      whiteOnlyKnights == nW > 0 /\ \A sq \in whiteNonKings : TypeAt(gs, sq) = "n"
      blackOnlyKnights == nB > 0 /\ \A sq \in blackNonKings : TypeAt(gs, sq) = "n"
  IN \/ nW = 0 /\ nB = 0
     \/ nW = 0 /\ Single(blackNonKings, "n")
     \/ nB = 0 /\ Single(whiteNonKings, "n")
     \/ nW = 0 /\ Single(blackNonKings, "b")
     \/ nB = 0 /\ Single(whiteNonKings, "b")
     \/ /\ Single(whiteNonKings, "b") /\ Single(blackNonKings, "b")
        /\ BishopSquareColor(gs, "white") = BishopSquareColor(gs, "black")
     \/ whiteOnlyKnights /\ blackOnlyKnights
     \/ /\ nW = 1 /\ nB = 1
        /\ \/ Single(whiteNonKings, "n") /\ Single(blackNonKings, "b")
           \/ Single(whiteNonKings, "b") /\ Single(blackNonKings, "n")

(***************************************************************************)
(* Move executor                                                           *)
(***************************************************************************)
findAmbiguousPieces(gs, pieceType, pieceColor, fromRow, fromCol, toRow, toCol) ==
  IF pieceType = "p" \/ pieceType = "k" THEN {}
  ELSE {sq \in [row : 0..7, col : 0..7] :
          /\ ~(sq.row = fromRow /\ sq.col = fromCol)
          /\ LET otherPiece == gs.board[sq.row][sq.col]
             IN /\ Truthy(otherPiece)
                /\ otherPiece.type = pieceType
                /\ otherPiece.color = pieceColor
                /\ \E m \in getLegalMoves(gs, sq.row, sq.col) : m.row = toRow /\ m.col = toCol}

\* updateCastlingRights that assigns both rights from the rook's file
updateCastlingRightsAssigning(players, piece, fromRow, fromCol) ==
  IF ~Truthy(piece) THEN players
  ELSE IF piece.type = "k"
  THEN [players EXCEPT ![piece.color].castling = [kingside |-> FALSE, queenside |-> FALSE]]
  ELSE IF piece.type = "r"
  THEN [players EXCEPT ![piece.color].castling = [kingside |-> fromCol # 7, queenside |-> fromCol # 0]]
  ELSE players

\* players[color].castling after updateCastlingRights(piece, fromRow, fromCol)
updateCastlingRights(players, piece, fromRow, fromCol) ==
  IF ~Truthy(piece) THEN players
  ELSE IF piece.type = "k"
  THEN [players EXCEPT ![piece.color].castling = [kingside |-> FALSE, queenside |-> FALSE]]
  ELSE IF piece.type = "r"
  THEN [players EXCEPT ![piece.color].castling =
          [kingside |-> IF fromCol = 7 THEN FALSE ELSE @.kingside,
           queenside |-> IF fromCol = 0 THEN FALSE ELSE @.queenside]]
  ELSE players

(***************************************************************************)
(* Clocks.  timerInterval is Null or the handle of the interval that       *)
(* startPlayerTimer registered; timerStartTime only measures the time      *)
(* between two ticks, which is an input of the tick.                       *)
(***************************************************************************)
Interval == "interval"

\* a timerStartTime that holds a Date.now()
Started == "started"

\* stopPlayerTimer(player): clearInterval on the handle the field holds
stopPlayerTimer(gs, player) ==
  IF gs.players[player].timerInterval # Null
  THEN [gs EXCEPT !.players[player].timerInterval = Null,
                  !.players[player].timerStartTime = Null]
  ELSE gs

\* stopAllTimers that stops white's clock only
stopWhiteTimer(gs) == stopPlayerTimer(gs, "white")

stopAllTimers(gs) == stopPlayerTimer(stopPlayerTimer(gs, "white"), "black")

\* startPlayerTimer(player)
startPlayerTimer(gs, player) ==
  IF gs.gameOver THEN gs
  ELSE [stopPlayerTimer(gs, player) EXCEPT !.players[player].timerInterval = Interval,
                                           !.players[player].timerStartTime = Started]

CaptureOrder(p) ==
  CASE p = "q" -> 1 [] p = "r" -> 2 [] p = "b" -> 3 [] p = "n" -> 4 [] p = "p" -> 5 [] OTHER -> 6

\* the captures string with newPieceType added at its end
InsertCaptureAtEnd(currentPieces, newPieceType) == Append(currentPieces, newPieceType)

\* the captures string after inserting newPieceType in the order q r b n p.
\* order[newPieceType] is undefined for a king, and a comparison with undefined is false.
InsertCapture(currentPieces, newPieceType) ==
  LET later == {i \in 1..Len(currentPieces) :
                  newPieceType # "k" /\ CaptureOrder(currentPieces[i]) > CaptureOrder(newPieceType)}
  IN IF later = {} THEN Append(currentPieces, newPieceType)
     ELSE LET insertIndex == CHOOSE i \in later : \A j \in later : i <= j
          IN SubSeq(currentPieces, 1, insertIndex - 1) \o <<newPieceType>> \o
             SubSeq(currentPieces, insertIndex, Len(currentPieces))

\* gameState.legalMoves.find(m => m.row === toRow && m.col === toCol); a plain
\* candidate stands for undefined, of which the code only reads falsy flags
FindMove(legalMoves, toRow, toCol) ==
  IF \E m \in legalMoves : m.row = toRow /\ m.col = toCol
  THEN CHOOSE m \in legalMoves : m.row = toRow /\ m.col = toCol
  ELSE Mv(toRow, toCol)

\* `move && move.isCastling` as stored in a move record: true or undefined
Flag(b) == IF b THEN "true" ELSE Undefined

\* the verdict block without its test of repetition
VerdictWithoutRepetition(gs) ==
  IF isCheckmate(gs, gs.turn) THEN "checkmate"
  ELSE IF isStalemate(gs, gs.turn) \/ hasInsufficientMaterial(gs) THEN "stalemate"
  ELSE Null

\* the verdict block of makeMove, evaluated with the turn already switched and
\* before the new signature is pushed
Verdict(gs) ==
  IF isCheckmate(gs, gs.turn) THEN "checkmate"
  ELSE IF isThreefoldRepetition(gs) THEN "repetition"
  ELSE IF isStalemate(gs, gs.turn) \/ hasInsufficientMaterial(gs) THEN "stalemate"
  ELSE Null

\* the relocated piece without the promotion
MovedPieceWithoutPromotion(gs, fromRow, fromCol, toRow, toCol, move) ==
  [gs.board[fromRow][fromCol] EXCEPT !.hasMoved = TRUE]

\* the piece object after the branch of makeMove that relocates it: hasMoved set,
\* and a pawn that reaches the last rank by a normal move turned into a queen
MovedPiece(gs, fromRow, fromCol, toRow, toCol, move) ==
  LET piece == gs.board[fromRow][fromCol]
      isPromotion == piece.type = "p" /\ (toRow = 0 \/ toRow = 7)
  IN [type |-> IF ~move.isCastling /\ ~move.isEnPassant /\ isPromotion THEN "q" ELSE piece.type,
      color |-> piece.color, hasMoved |-> TRUE]

\* gameState.board after the castling / en passant / normal branch of makeMove
BoardAfterMove(gs, fromRow, fromCol, toRow, toCol, move) ==
  LET relocated == [gs.board EXCEPT ![toRow][toCol] = MovedPiece(gs, fromRow, fromCol, toRow, toCol, move),
                                    ![fromRow][fromCol] = NoPiece]
  IN IF move.isCastling
     THEN LET rookToCol == IF toCol = 6 THEN 5 ELSE 3
              rook == relocated[fromRow][move.rookCol]
          IN [relocated EXCEPT ![fromRow][rookToCol] = [rook EXCEPT !.hasMoved = TRUE],
                               ![fromRow][move.rookCol] = NoPiece]
     ELSE IF move.isEnPassant
     THEN [relocated EXCEPT ![fromRow][toCol] = NoPiece]
     ELSE relocated

\* the piece a move takes off the board: the occupant of the target square, or the
\* pawn passed by an en passant capture
CapturedPiece(gs, fromRow, fromCol, toRow, toCol, move) ==
  LET capturedPiece == gs.board[toRow][toCol]
      enPassantCapture == IF ~move.isCastling /\ move.isEnPassant
                          THEN gs.board[fromRow][toCol] ELSE NoPiece
  IN IF Truthy(capturedPiece) THEN capturedPiece ELSE enPassantCapture

\* gameState.players after the move: castling rights of the mover, castling rights of
\* the owner of a captured rook, and the list of captures
PlayersAfterMove(gs, fromRow, fromCol, toRow, toCol, move) ==
  LET piece == gs.board[fromRow][fromCol]
      capturedPiece == gs.board[toRow][toCol]
      captured == CapturedPiece(gs, fromRow, fromCol, toRow, toCol, move)
      players1 ==
        IF move.isCastling
        THEN [gs.players EXCEPT ![piece.color].castling = [kingside |-> FALSE, queenside |-> FALSE]]
        ELSE updateCastlingRights(gs.players, MovedPiece(gs, fromRow, fromCol, toRow, toCol, move),
                                  fromRow, fromCol)
      players2 ==
        IF Truthy(capturedPiece) /\ capturedPiece.type = "r"
        THEN LET playerColor == capturedPiece.color
                 home == (playerColor = "white" /\ toRow = 0) \/ (playerColor = "black" /\ toRow = 7)
             IN [players1 EXCEPT ![playerColor].castling =
                   [kingside |-> IF toCol = 7 /\ home THEN FALSE ELSE @.kingside,
                    queenside |-> IF toCol = 0 /\ home THEN FALSE ELSE @.queenside]]
        ELSE players1
  IN IF Truthy(captured)
     THEN [players2 EXCEPT ![gs.turn].captures = InsertCapture(@, captured.type)]
     ELSE players2

\* gameState once makeMove has moved the piece and set lastMove and moveCount
PieceMoved(gs, fromRow, fromCol, toRow, toCol, move) ==
  [gs EXCEPT !.board = BoardAfterMove(gs, fromRow, fromCol, toRow, toCol, move),
             !.players = PlayersAfterMove(gs, fromRow, fromCol, toRow, toCol, move),
             !.lastMove = [piece |-> MovedPiece(gs, fromRow, fromCol, toRow, toCol, move),
                           fromRow |-> fromRow, fromCol |-> fromCol,
                           toRow |-> toRow, toCol |-> toCol],
             !.moveCount = gs.moveCount + 1]

\* the record of the move with the side that waits as its player
MoveRecordOfWaitingSide(gs, moved, fromRow, fromCol, toRow, toCol, move) ==
  LET piece == gs.board[fromRow][fromCol]
      isPromotion == piece.type = "p" /\ (toRow = 0 \/ toRow = 7)
  IN [piece |-> [type |-> piece.type, color |-> piece.color],
      fromRow |-> fromRow, fromCol |-> fromCol, toRow |-> toRow, toCol |-> toCol,
      player |-> Opponent(gs.turn),
      moveNumber |-> gs.moveCount + 1,
      isCastling |-> Flag(move.isCastling),
      isEnPassant |-> Flag(move.isEnPassant),
      isCapture |-> Truthy(CapturedPiece(gs, fromRow, fromCol, toRow, toCol, move)),
      promotedPiece |-> IF isPromotion THEN "q" ELSE Null,
      putsInCheck |-> isKingInCheck(moved, Opponent(gs.turn)),
      ambiguousPieces |-> findAmbiguousPieces(gs, piece.type, piece.color,
                                              fromRow, fromCol, toRow, toCol)]

\* the move record makeMove pushes on moveHistory; moved is the gameState with the
\* move applied, on which the check of the opponent's king is computed
MoveRecord(gs, moved, fromRow, fromCol, toRow, toCol, move) ==
  LET piece == gs.board[fromRow][fromCol]
      isPromotion == piece.type = "p" /\ (toRow = 0 \/ toRow = 7)
  IN [piece |-> [type |-> piece.type, color |-> piece.color],
      fromRow |-> fromRow, fromCol |-> fromCol, toRow |-> toRow, toCol |-> toCol,
      player |-> gs.turn,
      moveNumber |-> gs.moveCount + 1,
      isCastling |-> Flag(move.isCastling),
      isEnPassant |-> Flag(move.isEnPassant),
      isCapture |-> Truthy(CapturedPiece(gs, fromRow, fromCol, toRow, toCol, move)),
      promotedPiece |-> IF isPromotion THEN "q" ELSE Null,
      putsInCheck |-> isKingInCheck(moved, Opponent(gs.turn)),
      ambiguousPieces |-> findAmbiguousPieces(gs, piece.type, piece.color,
                                              fromRow, fromCol, toRow, toCol)]

\* the switch of the turn that starts the clock of the side to move and leaves the
\* mover's clock running
TurnSwitchedKeepingClock(moved, record) ==
  LET turned == [moved EXCEPT !.moveHistory = Append(@, record),
                              !.gameHasStarted = TRUE,
                              !.turn = Opponent(moved.turn)]
  IN IF ~turned.gameOver THEN startPlayerTimer(turned, turned.turn) ELSE turned

\* the record is pushed, the turn is switched, the mover's clock is stopped and the
\* clock of the side to move is started
TurnSwitched(moved, record) ==
  LET turned == [moved EXCEPT !.moveHistory = Append(@, record),
                              !.gameHasStarted = TRUE,
                              !.turn = Opponent(moved.turn)]
  IN IF ~turned.gameOver
     THEN startPlayerTimer(stopPlayerTimer(turned, moved.turn), turned.turn)
     ELSE turned

\* the end of makeMove: the verdict is stored, the clocks are stopped when the game
\* ended, the new signature is pushed, and the events are dispatched in order
MoveJudged(switched, record, verdict) ==
  LET judged == IF verdict = Null THEN switched
                ELSE stopAllTimers([switched EXCEPT !.gameOver = TRUE, !.gameResult = verdict])
      winner == IF verdict = "checkmate" THEN Opponent(switched.turn) ELSE Null
  IN [state |-> [judged EXCEPT !.positionHistory = Append(@, getPositionSignature(judged))],
      events |-> <<[type |-> "moveMade", detail |-> record],
                   [type |-> "turnChange", detail |-> [currentPlayer |-> switched.turn]]>> \o
                 (IF verdict = Null THEN <<>>
                  ELSE <<[type |-> "gameEnd", detail |-> [result |-> verdict, winner |-> winner]]>>)]

\* makeMove from the switch of the turn on
MoveConcluded(switched, record) == MoveJudged(switched, record, Verdict(switched))

\* makeMove from the move record on
MoveRecorded(moved, record) == MoveConcluded(TurnSwitched(moved, record), record)

\* makeMove(fromRow, fromCol, toRow, toCol) with the entry of legalMoves it found
MoveMade(gs, moved, fromRow, fromCol, toRow, toCol, move) ==
  MoveRecorded(moved, MoveRecord(gs, moved, fromRow, fromCol, toRow, toCol, move))

\* makeMove(fromRow, fromCol, toRow, toCol): the new gameState and the window events
\* it dispatches, in order
makeMove(gs, fromRow, fromCol, toRow, toCol) ==
  MoveMade(gs, PieceMoved(gs, fromRow, fromCol, toRow, toCol, FindMove(gs.legalMoves, toRow, toCol)),
           fromRow, fromCol, toRow, toCol, FindMove(gs.legalMoves, toRow, toCol))

(***************************************************************************)
(* Peer snapshot: serialization and replay                                 *)
(***************************************************************************)
OptionalKeys == {"isCastling", "isEnPassant"}

\* JSON.parse(JSON.stringify(record)): a key whose value is undefined is dropped
JSONRoundTrip(record) ==
  [key \in (DOMAIN record) \ {k \in OptionalKeys \cap DOMAIN record : record[k] = Undefined}
     |-> record[key]]

\* destructuring a key of a parsed record: undefined when the key is absent
ReadKey(record, key) == IF key \in DOMAIN record THEN record[key] ELSE Undefined

\* ReadFlag that never finds the key
ReadFlagMissing(record, key) == FALSE

\* the truthiness of a destructured isCastling / isEnPassant
ReadFlag(record, key) == ReadKey(record, key) = "true"

\* a JavaScript number, as a field of a payload whose fields may hold anything
Number(n) == [typeof |-> "number", value |-> n]

\* a JavaScript string in such a field
String(str) == [typeof |-> "string", value |-> str]

serializeForMultiplayer(gs) ==
  [moveHistory |-> [i \in 1..Len(gs.moveHistory) |-> JSONRoundTrip(gs.moveHistory[i])],
   turn |-> gs.turn,
   whiteTime |-> Number(gs.players["white"].timeRemaining),
   blackTime |-> Number(gs.players["black"].timeRemaining),
   gameOver |-> gs.gameOver,
   gameResult |-> gs.gameResult]

\* one iteration of the replay loop of reconstructBoardFromMoveHistory
ReplayMove(gs, move) ==
  LET fromRow == move.fromRow
      fromCol == move.fromCol
      toRow == move.toRow
      toCol == move.toCol
      isCastling == ReadFlag(move, "isCastling")
      isEnPassant == ReadFlag(move, "isEnPassant")
      pieceObj == gs.board[fromRow][fromCol]
      capturedPiece == IF isEnPassant THEN gs.board[fromRow][toCol]
                       ELSE IF move.isCapture /\ ~isCastling THEN gs.board[toRow][toCol]
                       ELSE NoPiece
      promotedPiece == ReadKey(move, "promotedPiece")
      movedPiece == [type |-> IF ~isCastling /\ ~isEnPassant /\ promotedPiece \notin {Null, Undefined}
                              THEN promotedPiece ELSE pieceObj.type,
                     color |-> pieceObj.color, hasMoved |-> TRUE]
      relocated == [gs.board EXCEPT ![toRow][toCol] = movedPiece, ![fromRow][fromCol] = NoPiece]
      board1 ==
        IF isCastling
        THEN LET rookFromCol == IF toCol = 6 THEN 7 ELSE 0
                 rookToCol == IF toCol = 6 THEN 5 ELSE 3
                 rook == relocated[fromRow][rookFromCol]
             IN IF Truthy(rook)
                THEN [relocated EXCEPT ![fromRow][rookToCol] = [rook EXCEPT !.hasMoved = TRUE],
                                       ![fromRow][rookFromCol] = NoPiece]
                ELSE relocated
        ELSE IF isEnPassant
        THEN [relocated EXCEPT ![fromRow][toCol] = NoPiece]
        ELSE relocated
      players1 ==
        IF isCastling
        THEN [gs.players EXCEPT ![move.piece.color].castling = [kingside |-> FALSE, queenside |-> FALSE]]
        ELSE updateCastlingRights(gs.players, movedPiece, fromRow, fromCol)
      players2 ==
        IF Truthy(capturedPiece)
        THEN [players1 EXCEPT ![move.player].captures = InsertCapture(@, capturedPiece.type)]
        ELSE players1
      applied == [gs EXCEPT !.board = board1, !.players = players2,
                            !.lastMove = [piece |-> movedPiece, fromRow |-> fromRow, fromCol |-> fromCol,
                                          toRow |-> toRow, toCol |-> toCol],
                            !.moveCount = move.moveNumber]
      signature == getPositionSignature([applied EXCEPT !.turn = Opponent(move.player)])
  IN IF ~Truthy(pieceObj) THEN gs
     ELSE [applied EXCEPT !.positionHistory = Append(@, signature)]

RECURSIVE ReplayFrom(_, _)
\* the for loop over gameState.moveHistory, from the i-th record on
ReplayFrom(gs, i) ==
  IF i > Len(gs.moveHistory) THEN gs
  ELSE ReplayFrom(ReplayMove(gs, gs.moveHistory[i]), i + 1)

\* reconstructBoardFromMoveHistory up to its `await import('./gameRules.js')`: the
\* board is the starting array and the derived state is reset
ResetBeforeImport(gs) ==
  [gs EXCEPT !.board = StartBoard,
             !.selectedSquare = NoSquare,
             !.legalMoves = {},
             !.lastMove = NoLastMove,
             !.moveCount = 0,
             !.positionHistory = <<>>,
             !.players = [color \in {"white", "black"} |->
                            [@[color] EXCEPT !.captures = <<>>, !.castling = FullCastling]]]

\* reconstructBoardFromMoveHistory from the import on: the signature of the board as
\* it stands is pushed and the records of gameState.moveHistory are replayed
ReplayAfterImport(gs) ==
  ReplayFrom([gs EXCEPT !.positionHistory = Append(@, getPositionSignature(gs))], 1)

\* reconstructBoardFromMoveHistory that replays onto the board as it stands
reconstructWithoutStartingArray(gs) ==
  LET reset == [gs EXCEPT !.selectedSquare = NoSquare,
                          !.legalMoves = {},
                          !.lastMove = NoLastMove,
                          !.moveCount = 0,
                          !.positionHistory = <<>>,
                          !.players = [color \in {"white", "black"} |->
                                         [@[color] EXCEPT !.captures = <<>>, !.castling = FullCastling]]]
      start == [reset EXCEPT !.positionHistory = Append(@, getPositionSignature(reset))]
  IN ReplayFrom(start, 1)

reconstructBoardFromMoveHistory(gs) == ReplayAfterImport(ResetBeforeImport(gs))

\* the validation at the head of deserializeFromMultiplayer: a key that is absent reads
\* as undefined, which is falsy and whose typeof is not 'number'
\* the validation without the test of turn
IsValidPayloadIgnoringTurn(multiplayerState) ==
  /\ "moveHistory" \in DOMAIN multiplayerState
  /\ "whiteTime" \in DOMAIN multiplayerState /\ multiplayerState.whiteTime.typeof = "number"
  /\ "blackTime" \in DOMAIN multiplayerState /\ multiplayerState.blackTime.typeof = "number"

IsValidPayload(multiplayerState) ==
  /\ "moveHistory" \in DOMAIN multiplayerState
  /\ "turn" \in DOMAIN multiplayerState /\ multiplayerState.turn # ""
  /\ "whiteTime" \in DOMAIN multiplayerState /\ multiplayerState.whiteTime.typeof = "number"
  /\ "blackTime" \in DOMAIN multiplayerState /\ multiplayerState.blackTime.typeof = "number"

\* the assignments of deserializeFromMultiplayer between the validation and the call
\* of reconstructBoardFromMoveHistory
ApplySnapshot(gs, multiplayerState) ==
  [gs EXCEPT !.moveHistory = [i \in 1..Len(multiplayerState.moveHistory) |->
                                JSONRoundTrip(multiplayerState.moveHistory[i])],
             !.turn = ReadKey(multiplayerState, "turn"),
             !.players = [@ EXCEPT !["white"].timeRemaining = multiplayerState.whiteTime.value,
                                   !["black"].timeRemaining = multiplayerState.blackTime.value],
             !.gameOver = IF "gameOver" \in DOMAIN multiplayerState
                          THEN multiplayerState.gameOver ELSE FALSE,
             !.gameResult = IF "gameResult" \in DOMAIN multiplayerState
                            THEN multiplayerState.gameResult ELSE Null,
             !.gameHasStarted = Len(multiplayerState.moveHistory) > 0]

\* the gameEnd event deserializeFromMultiplayer dispatches once the board is rebuilt
GameEndOfSnapshot(rebuilt) ==
  LET winner == IF rebuilt.gameResult = "checkmate" THEN Opponent(rebuilt.turn)
                ELSE IF rebuilt.gameResult = "timeout" THEN rebuilt.turn
                ELSE Null
  IN IF rebuilt.gameOver /\ rebuilt.gameResult # Null
     THEN <<[type |-> "gameEnd", detail |-> [result |-> rebuilt.gameResult, winner |-> winner]]>>
     ELSE <<>>

\* what deserializeFromMultiplayer returns with the board rebuilt
Deserialized(rebuilt) ==
  [state |-> rebuilt, events |-> GameEndOfSnapshot(rebuilt), error |-> FALSE]

\* deserializeFromMultiplayer(multiplayerState): the state it leaves, the events it
\* dispatches and whether it threw
deserializeFromMultiplayer(gs, multiplayerState) ==
  IF ~IsValidPayload(multiplayerState)
  THEN [state |-> gs, events |-> <<>>, error |-> TRUE]
  ELSE Deserialized(reconstructBoardFromMoveHistory(ApplySnapshot(gs, multiplayerState)))

(***************************************************************************)
(* Inputs: the games the players click through                             *)
(***************************************************************************)
\* longest game played, in plies
MaxPly == 12

\* Each move is <<fromRow, fromCol, toRow, toCol>>.
Book ==
  {
   \* Knights out and back until the position repeats
   <<<<7, 6, 5, 5>>, <<0, 6, 2, 5>>, <<5, 5, 7, 6>>, <<2, 5, 0, 6>>, <<7, 6, 5, 5>>,
     <<0, 6, 2, 5>>, <<5, 5, 7, 6>>, <<2, 5, 0, 6>>, <<7, 6, 5, 5>>, <<0, 6, 2, 5>>,
     <<5, 5, 7, 6>>, <<2, 5, 0, 6>>>>,
   \* Fool's mate: 1.f3 e5 2.g4 Qh4#
   <<<<6, 5, 5, 5>>, <<1, 4, 3, 4>>, <<6, 6, 4, 6>>, <<0, 3, 4, 7>>>>,
   \* Scholar's mate: 1.e4 e5 2.Qh5 Nc6 3.Bc4 Nf6 4.Qxf7#
   <<<<6, 4, 4, 4>>, <<1, 4, 3, 4>>, <<7, 3, 3, 7>>, <<0, 1, 2, 2>>, <<7, 5, 4, 2>>,
     <<0, 6, 2, 5>>, <<3, 7, 1, 5>>>>,
   \* White captures en passant: 1.e4 a6 2.e5 d5 3.exd6 cxd6
   <<<<6, 4, 4, 4>>, <<1, 0, 2, 0>>, <<4, 4, 3, 4>>, <<1, 3, 3, 3>>, <<3, 4, 2, 3>>,
     <<1, 2, 2, 3>>>>,
   \* White lets the en-passant window pass: 1.e4 a6 2.e5 d5 3.a3 f6 4.h3 h6
   <<<<6, 4, 4, 4>>, <<1, 0, 2, 0>>, <<4, 4, 3, 4>>, <<1, 3, 3, 3>>, <<6, 0, 5, 0>>,
     <<1, 5, 2, 5>>, <<6, 7, 5, 7>>, <<1, 7, 2, 7>>>>,
   \* Black captures en passant: 1.a3 e5 2.a4 e4 3.d4 exd3 4.cxd3
   <<<<6, 0, 5, 0>>, <<1, 4, 3, 4>>, <<5, 0, 4, 0>>, <<3, 4, 4, 4>>, <<6, 3, 4, 3>>,
     <<4, 4, 5, 3>>, <<6, 2, 5, 3>>>>,
   \* Promotion with capture: 1.h4 g5 2.hxg5 h6 3.gxh6 a6 4.h7 a5 5.hxg8=Q Rxg8
   <<<<6, 7, 4, 7>>, <<1, 6, 3, 6>>, <<4, 7, 3, 6>>, <<1, 7, 2, 7>>, <<3, 6, 2, 7>>,
     <<1, 0, 2, 0>>, <<2, 7, 1, 7>>, <<2, 0, 3, 0>>, <<1, 7, 0, 6>>, <<0, 7, 0, 6>>>>,
   \* Both sides castle kingside: 1.e4 e5 2.Nf3 Nf6 3.Be2 Be7 4.O-O O-O
   <<<<6, 4, 4, 4>>, <<1, 4, 3, 4>>, <<7, 6, 5, 5>>, <<0, 6, 2, 5>>, <<7, 5, 6, 4>>,
     <<0, 5, 1, 4>>, <<7, 4, 7, 6>>, <<0, 4, 0, 6>>>>,
   \* Both sides castle queenside: 1.d4 d5 2.Nc3 Nc6 3.Bf4 Bf5 4.Qd2 Qd7 5.O-O-O O-O-O
   <<<<6, 3, 4, 3>>, <<1, 3, 3, 3>>, <<7, 1, 5, 2>>, <<0, 1, 2, 2>>, <<7, 2, 4, 5>>,
     <<0, 2, 3, 5>>, <<7, 3, 6, 3>>, <<0, 3, 1, 3>>, <<7, 4, 7, 2>>, <<0, 4, 0, 2>>>>,
   \* A black pawn reaches e2: 1.e4 d5 2.exd5 e5 3.Nf3 e4 4.Bc4 e3 5.a3 e2 6.O-O
   <<<<6, 4, 4, 4>>, <<1, 3, 3, 3>>, <<4, 4, 3, 3>>, <<1, 4, 3, 4>>, <<7, 6, 5, 5>>,
     <<3, 4, 4, 4>>, <<7, 5, 4, 2>>, <<4, 4, 5, 4>>, <<6, 0, 5, 0>>, <<5, 4, 6, 4>>,
     <<7, 4, 7, 6>>>>,
   \* Check and pin on the a4-e8 diagonal: 1.e4 d5 2.Bb5+ c6 3.Bxc6+ Nxc6
   <<<<6, 4, 4, 4>>, <<1, 3, 3, 3>>, <<7, 5, 3, 1>>, <<1, 2, 2, 2>>, <<3, 1, 2, 2>>,
     <<0, 1, 2, 2>>>>,
   \* The check is blocked by a piece that is then pinned: 2...Nc6 3.Nf3 a6 4.Bxc6+
   <<<<6, 4, 4, 4>>, <<1, 3, 3, 3>>, <<7, 5, 3, 1>>, <<0, 1, 2, 2>>, <<7, 6, 5, 5>>,
     <<1, 0, 2, 0>>, <<3, 1, 2, 2>>>>,
   \* A rook is captured on its home corner: 1.b3 a6 2.Bb2 a5 3.Bxg7 a4 4.Bxh8
   <<<<6, 1, 5, 1>>, <<1, 0, 2, 0>>, <<7, 2, 6, 1>>, <<2, 0, 3, 0>>, <<6, 1, 1, 6>>,
     <<3, 0, 4, 0>>, <<1, 6, 0, 7>>>>,
   \* A rook leaves and returns: 1.a4 h5 2.Ra3 Rh6 3.Ra1 Rh8
   <<<<6, 0, 4, 0>>, <<1, 7, 3, 7>>, <<7, 0, 5, 0>>, <<0, 7, 2, 7>>, <<5, 0, 7, 0>>,
     <<2, 7, 0, 7>>>>,
   \* The h-rooks return home with the way clear, black's a-rook has moved as well, and
   \* white tries to castle: 1.Nf3 h5 2.g3 Rh6 3.Bg2 a5 4.Rg1 Ra6 5.Rh1 Rh8 6.O-O
   <<<<7, 6, 5, 5>>, <<1, 7, 3, 7>>, <<6, 6, 5, 6>>, <<0, 7, 2, 7>>, <<7, 5, 6, 6>>,
     <<1, 0, 3, 0>>, <<7, 7, 7, 6>>, <<0, 0, 2, 0>>, <<7, 6, 7, 7>>, <<2, 7, 0, 7>>,
     <<7, 4, 7, 6>>>>,
   \* White's a-rook reaches h8 along the eighth rank and is taken there:
   \* 1.a4 e6 2.Ra3 Ne7 3.Rg3 a6 4.Rxg7 Ng6 5.Rg8 a5 6.Rxh8 Nxh8
   <<<<6, 0, 4, 0>>, <<1, 4, 2, 4>>, <<7, 0, 5, 0>>, <<0, 6, 1, 4>>, <<5, 0, 5, 6>>,
     <<1, 0, 2, 0>>, <<5, 6, 1, 6>>, <<1, 4, 2, 6>>, <<1, 6, 0, 6>>, <<2, 0, 3, 0>>,
     <<0, 6, 0, 7>>, <<2, 6, 0, 7>>>>,
   \* White's a-rook reaches the h-file and moves on: 1.a4 a6 2.Ra3 b6 3.h4 c6 4.Rh3 d6
   \* 5.Rg3
   <<<<6, 0, 4, 0>>, <<1, 0, 2, 0>>, <<7, 0, 5, 0>>, <<1, 1, 2, 1>>, <<6, 7, 4, 7>>,
     <<1, 2, 2, 2>>, <<5, 0, 5, 7>>, <<1, 3, 2, 3>>, <<5, 7, 5, 6>>>>,
   \* Black tries to ignore a check: 1.e4 d5 2.Bb5+ a6 3.Bxe8
   <<<<6, 4, 4, 4>>, <<1, 3, 3, 3>>, <<7, 5, 3, 1>>, <<1, 0, 2, 0>>, <<3, 1, 0, 4>>>>
  }

\* the <<fromRow, fromCol, toRow, toCol>> of the moves recorded so far
Played(gs) ==
  [i \in 1..Len(gs.moveHistory) |->
     <<gs.moveHistory[i].fromRow, gs.moveHistory[i].fromCol,
       gs.moveHistory[i].toRow, gs.moveHistory[i].toCol>>]

\* the next moves of the games of the book that began like this one
Continuations(gs) ==
  LET n == Len(gs.moveHistory)
  IN {line[n + 1] : line \in {l \in Book : Len(l) > n /\ SubSeq(l, 1, n) = Played(gs)}}

\* the squares a player clicks next: the origin or the destination of such a move
ClickInputs(gs) ==
  {<<m[1], m[2]>> : m \in Continuations(gs)} \cup {<<m[3], m[4]>> : m \in Continuations(gs)}

(***************************************************************************)
(* Handlers                                                                *)
(***************************************************************************)
\* the other peer and the channel: the game the remote tab holds, the messages in flight
\* in each direction in the order they were sent, and the tabs that have sent the
\* requestState of their initial connection; localPlayerColor is the colour that
\* enableMultiplayer assigns this tab when nothing else is stored
PeersAtStart ==
  [remote |-> initializeBoard, toLocal |-> <<>>, toRemote |-> <<>>, asked |-> {},
   localPlayerColor |-> "white"]

Init ==
  /\ gameState = initializeBoard
  /\ dispatched = <<>>
  /\ synced = FALSE
  /\ orphans = {}
  /\ pending = 0
  /\ net = PeersAtStart

\* the test at the head of handleSquareClick that lets every click through
ClickIsNeverIgnored(gs) == FALSE

\* if (gameState.gameOver) return: the test at the head of handleSquareClick
ClickIsIgnored(gs) == gs.gameOver

\* the test that selects whatever piece stands on the clicked square
IsAnyPiece(gs, piece) == Truthy(piece)

\* piece && piece.color === gameState.turn: the test of handleSquareClick before it
\* selects a square and stores getLegalMoves for it
IsOwnPiece(gs, piece) == Truthy(piece) /\ piece.color = gs.turn

\* handleSquareClick(row, col) of main.js, for a click that the multiplayer gate lets
\* through (multiplayer off, or the local player's turn)
HandleSquareClick(row, col) ==
  /\ UNCHANGED <<synced, orphans, pending, net>>
  /\ LET gs == gameState
         piece == gs.board[row][col]
         select == [gs EXCEPT !.selectedSquare = [row |-> row, col |-> col],
                              !.legalMoves = getLegalMoves(gs, row, col)]
     IN IF ClickIsIgnored(gs) THEN UNCHANGED <<gameState, dispatched>>
        ELSE IF gs.selectedSquare # NoSquare
        THEN IF \E move \in gs.legalMoves : move.row = row /\ move.col = col
             THEN LET made == makeMove(gs, gs.selectedSquare.row, gs.selectedSquare.col, row, col)
                  IN /\ gameState' = [made.state EXCEPT !.selectedSquare = NoSquare, !.legalMoves = {}]
                     /\ dispatched' = made.events
             ELSE IF IsOwnPiece(gs, piece)
             THEN gameState' = select /\ dispatched' = <<>>
             ELSE /\ gameState' = [gs EXCEPT !.selectedSquare = NoSquare, !.legalMoves = {}]
                  /\ dispatched' = <<>>
        ELSE IF IsOwnPiece(gs, piece)
        THEN gameState' = select /\ dispatched' = <<>>
        ELSE UNCHANGED <<gameState, dispatched>>

\* handleGameStateMessage(data) of multiplayer.js: the clocks are stopped, the payload
\* is deserialized, and the clock of the side to move is started; an error thrown by
\* the deserialization is caught and logged after the clocks were stopped
HandleGameStateMessage(data) ==
  LET stopped == stopAllTimers(gameState)
      received == deserializeFromMultiplayer(stopped, data)
      gs == received.state
  IN /\ gameState' = IF received.error THEN gs
                     ELSE IF ~gs.gameOver /\ gs.gameHasStarted THEN startPlayerTimer(gs, gs.turn)
                     ELSE gs
     /\ dispatched' = received.events
     /\ synced' = ~received.error
     /\ UNCHANGED <<orphans, pending, net>>

\* the colours whose clock is recorded as running
Running(gs) == {color \in {"white", "black"} : gs.players[color].timerInterval # Null}

\* a reset that leaves the selection and the list of its moves in place
ResetGameKeepingSelection ==
  /\ gameState' = [initializeBoard EXCEPT !.selectedSquare = gameState.selectedSquare,
                                          !.legalMoves = gameState.legalMoves]
  /\ dispatched' = <<[type |-> "gameReset"]>>
  /\ synced' = FALSE
  /\ orphans' = orphans \cup Running(gameState)
  /\ UNCHANGED <<pending, net>>

\* the click handler of the reset button.  initializeBoard overwrites timerInterval
\* with null without clearInterval: the interval stays registered with the browser
ResetGame ==
  /\ gameState' = initializeBoard
  /\ dispatched' = <<[type |-> "gameReset"]>>
  /\ synced' = FALSE
  /\ orphans' = orphans \cup Running(gameState)
  /\ UNCHANGED <<pending, net>>

\* the snapshot of a peer that holds the same game as this tab
OwnSnapshot(gs) == {serializeForMultiplayer(gs)}

\* Play without the passing of time: no clock tick is delivered, and the reset button
\* is pressed while no clock runs (before the first move or after the end of a game),
\* so that no interval is left behind.  The state a reset produces does not depend on
\* the state it is pressed in; SpecClock below presses it at any time.
Next ==
  \/ /\ Len(gameState.moveHistory) < MaxPly
     /\ \E sq \in ClickInputs(gameState) : HandleSquareClick(sq[1], sq[2])
  \/ \E data \in OwnSnapshot(gameState) : HandleGameStateMessage(data)
  \/ Running(gameState) = {} /\ ResetGame

Spec == Init /\ [][Next]_vars


(***************************************************************************)
(* The rules of chess the engine is compared with                          *)
(***************************************************************************)
Sign(x) == IF x > 0 THEN 1 ELSE IF x < 0 THEN -1 ELSE 0

Max(a, b) == IF a > b THEN a ELSE b

\* every square strictly between (r, c) and (row, col) on their common line is empty
ClearBetween(board, r, c, row, col) ==
  \A k \in 1..(Max(Abs(row - r), Abs(col - c)) - 1) :
     ~Truthy(board[r + k * Sign(row - r)][c + k * Sign(col - c)])

\* the piece on (r, c) could capture on (row, col)
Attacks(board, r, c, row, col) ==
  LET piece == board[r][c]
      dr == row - r
      dc == col - c
      straight == (dr = 0 \/ dc = 0) /\ <<dr, dc>> # <<0, 0>> /\ ClearBetween(board, r, c, row, col)
      diagonal == Abs(dr) = Abs(dc) /\ dr # 0 /\ ClearBetween(board, r, c, row, col)
  IN CASE piece.type = "p" -> dr = (IF piece.color = "white" THEN -1 ELSE 1) /\ Abs(dc) = 1
       [] piece.type = "n" -> {Abs(dr), Abs(dc)} = {1, 2}
       [] piece.type = "k" -> Max(Abs(dr), Abs(dc)) = 1
       [] piece.type = "r" -> straight
       [] piece.type = "b" -> diagonal
       [] piece.type = "q" -> straight \/ diagonal
       [] OTHER -> FALSE

Attacked(board, row, col, byColor) ==
  \E r \in 0..7, c \in 0..7 : board[r][c].color = byColor /\ Attacks(board, r, c, row, col)

\* some king of the colour stands on an attacked square
KingAttacked(board, color) ==
  \E r \in 0..7, c \in 0..7 :
     /\ board[r][c].type = "k" /\ board[r][c].color = color
     /\ Attacked(board, r, c, Opponent(color))

\* the squares of the pieces of the side to move
OwnSquares(gs) == {sq \in Squares : gs.board[sq[1]][sq[2]].color = gs.turn}

\* the state after the piece on sq is selected and the candidate m is played
PlayedFrom(gs, sq, m) ==
  makeMove([gs EXCEPT !.legalMoves = getLegalMoves(gs, sq[1], sq[2])], sq[1], sq[2], m.row, m.col).state

\* the last record of the move history
LastRecord(gs) == gs.moveHistory[Len(gs.moveHistory)]

\* the handler that ran last applied a move
MoveApplied == dispatched # <<>> /\ dispatched[1].type = "moveMade"

(***************************************************************************)
(* Play with clocks, peers and resets at any time                          *)
(***************************************************************************)
\* handleTimeUp that names the player who ran out of time as the winner
handleTimeUpForLoser(gs, playerWhoRanOut) ==
  IF gs.gameOver THEN [state |-> gs, events |-> <<>>]
  ELSE LET stopped == stopAllTimers(gs)
       IN IF hasInsufficientMaterial(stopped)
          THEN [state |-> [stopped EXCEPT !.gameOver = TRUE, !.gameResult = "stalemate"],
                events |-> <<[type |-> "gameEnd", detail |-> [result |-> "stalemate", winner |-> Null]]>>]
          ELSE [state |-> [stopped EXCEPT !.gameOver = TRUE, !.gameResult = "timeout"],
                events |-> <<[type |-> "gameEnd", detail |-> [result |-> "timeout", winner |-> playerWhoRanOut]]>>]

\* a timeUp listener that does nothing
handleTimeUpIgnored(gs, playerWhoRanOut) == [state |-> gs, events |-> <<>>]

\* handleTimeUp(playerWhoRanOut) of main.js: the state it leaves and the events it
\* dispatches
handleTimeUp(gs, playerWhoRanOut) ==
  IF gs.gameOver THEN [state |-> gs, events |-> <<>>]
  ELSE LET stopped == stopAllTimers(gs)
           winner == IF playerWhoRanOut = "white" THEN "black" ELSE "white"
       IN IF hasInsufficientMaterial(stopped)
          THEN [state |-> [stopped EXCEPT !.gameOver = TRUE, !.gameResult = "stalemate"],
                events |-> <<[type |-> "gameEnd", detail |-> [result |-> "stalemate", winner |-> Null]]>>]
          ELSE [state |-> [stopped EXCEPT !.gameOver = TRUE, !.gameResult = "timeout"],
                events |-> <<[type |-> "gameEnd", detail |-> [result |-> "timeout", winner |-> winner]]>>]

\* the time that passes between two ticks of a clock, in milliseconds
TickMs == 300000

\* the callback that startPlayerTimer(player) registered with setInterval, run once.
\* elapsed is Date.now() - timerStartTime; with timerStartTime null that is the time
\* since 1970, more than any clock holds
TimerTick(player) ==
  /\ player \in Running(gameState) \cup orphans
  /\ UNCHANGED <<synced, orphans, pending, net>>
  /\ LET gs == gameState
         timer == gs.players[player]
         left == IF timer.timerStartTime = Null THEN 0 - 1 ELSE timer.timeRemaining - TickMs
         ticked == [gs EXCEPT !.players[player].timeRemaining = left,
                              !.players[player].timerStartTime = Started]
     IN IF gs.gameOver
        THEN gameState' = stopPlayerTimer(gs, player) /\ dispatched' = <<>>
        ELSE IF left <= 0
        THEN LET up == handleTimeUp(stopPlayerTimer([ticked EXCEPT !.players[player].timeRemaining = 0],
                                                     player), player)
             IN /\ gameState' = up.state
                /\ dispatched' = <<[type |-> "timeUp", detail |-> [player |-> player]]>> \o up.events
        ELSE gameState' = ticked /\ dispatched' = <<>>

FoolsMate == <<<<6, 5, 5, 5>>, <<1, 4, 3, 4>>, <<6, 6, 4, 6>>, <<0, 3, 4, 7>>>>

RECURSIVE GameAfter(_, _)
\* the state of a peer that played the first n moves of the line
GameAfter(line, n) ==
  IF n = 0 THEN initializeBoard
  ELSE CHOOSE after \in {PlayedFrom(before, <<line[n][1], line[n][2]>>, Mv(line[n][3], line[n][4])) :
                            before \in {GameAfter(line, n - 1)}} : TRUE

\* what handleTimeUp left and dispatched on the peer where white's clock ran out
\* after 1.f3 e5
TimeUpOnPeer ==
  handleTimeUp([GameAfter(FoolsMate, 2) EXCEPT !.players["white"].timeRemaining = 0], "white")

\* the games the peers hold: not begun, after one move, lost on time, ended by mate
PeerGames ==
  {initializeBoard,
   GameAfter(FoolsMate, 1),
   TimeUpOnPeer.state,
   GameAfter(FoolsMate, 4)}

\* the snapshots the peers broadcast
PeerSnapshots == {serializeForMultiplayer(gs) : gs \in PeerGames}

\* a payload without the key
Without(data, key) == [k \in (DOMAIN data) \ {key} |-> data[k]]

\* payloads that lack a required field or carry a clock value that is not a number
MalformedPayloads ==
  LET data == serializeForMultiplayer(GameAfter(FoolsMate, 1))
  IN {Without(data, "moveHistory"),
      Without(data, "turn"),
      [data EXCEPT !.whiteTime = String("10:00")],
      Without(data, "blackTime")}

\* the squares clicked in a game against the clock: those of the next move of FoolsMate
ClockInputs(gs) ==
  LET n == Len(gs.moveHistory)
  IN IF n < Len(FoolsMate) /\ SubSeq(FoolsMate, 1, n) = Played(gs)
     THEN {<<FoolsMate[n + 1][1], FoolsMate[n + 1][2]>>, <<FoolsMate[n + 1][3], FoolsMate[n + 1][4]>>}
     ELSE {}

NextClock ==
  \/ \E sq \in ClockInputs(gameState) : HandleSquareClick(sq[1], sq[2])
  \/ \E data \in PeerSnapshots \cup MalformedPayloads : HandleGameStateMessage(data)
  \/ ResetGame
  \/ \E player \in {"white", "black"} : TimerTick(player)

SpecClock == Init /\ [][NextClock]_vars

\* Play against the clock with a peer whose game is in progress.  setInterval runs the
\* callback of a registered interval again and again: a tick that stays due is
\* delivered.
NextTicking ==
  \/ \E sq \in ClockInputs(gameState) : HandleSquareClick(sq[1], sq[2])
  \/ \E data \in {serializeForMultiplayer(GameAfter(FoolsMate, n)) : n \in 1..2} :
        HandleGameStateMessage(data)
  \/ ResetGame
  \/ \E player \in {"white", "black"} : TimerTick(player)

SpecTicking ==
  Init /\ [][NextTicking]_vars /\ WF_vars(TimerTick("white")) /\ WF_vars(TimerTick("black"))

(***************************************************************************)
(* Snapshots received while a snapshot is being applied.                   *)
(* handleGameStateMessage is an async function: it runs up to the          *)
(* `await import('./gameRules.js')` inside reconstructBoardFromMoveHistory *)
(* and is resumed by the event loop once the import is settled; between    *)
(* the two the event loop delivers whatever event is due.  A suspended     *)
(* handler holds nothing but its position: all it reads when it is         *)
(* resumed is gameState.  pending counts the suspended handlers.           *)
(* HandleGameStateMessage above is the schedule in which the handler is    *)
(* resumed before any other event is delivered.                            *)
(***************************************************************************)
\* most handlers suspended at a time
MaxPending == 2

\* gameState when handleGameStateMessage(data) is suspended: the clocks are stopped,
\* the fields of the payload are assigned, the board is the starting array
BeginSnapshot(gs, data) == ResetBeforeImport(ApplySnapshot(stopAllTimers(gs), data))

\* the end of handleGameStateMessage once the board is rebuilt: the gameEnd event of
\* deserializeFromMultiplayer and the clock of the side to move
SnapshotHandled(rebuilt) ==
  [state |-> IF ~rebuilt.gameOver /\ rebuilt.gameHasStarted
             THEN startPlayerTimer(rebuilt, rebuilt.turn)
             ELSE rebuilt,
   events |-> GameEndOfSnapshot(rebuilt)]

\* handleGameStateMessage from its resumption on
ResumeSnapshot(gs) == SnapshotHandled(ReplayAfterImport(gs))

\* handleGameStateMessage(data) until it is suspended, or until the validation throws
BeginGameStateMessage(data) ==
  /\ pending < MaxPending
  /\ IF IsValidPayload(data)
     THEN gameState' = BeginSnapshot(gameState, data) /\ pending' = pending + 1
     ELSE gameState' = stopAllTimers(gameState) /\ pending' = pending
  /\ dispatched' = <<>>
  /\ synced' = FALSE
  /\ UNCHANGED <<orphans, net>>

\* a suspended handleGameStateMessage is resumed and runs to its end
ResumeGameStateMessage ==
  /\ pending > 0
  /\ gameState' = ResumeSnapshot(gameState).state
  /\ dispatched' = ResumeSnapshot(gameState).events
  /\ synced' = TRUE
  /\ pending' = pending - 1
  /\ UNCHANGED <<orphans, net>>

NextAsync ==
  \/ \E sq \in ClockInputs(gameState) : HandleSquareClick(sq[1], sq[2])
  \/ \E data \in PeerSnapshots \cup MalformedPayloads : BeginGameStateMessage(data)
  \/ ResumeGameStateMessage
  \/ \E player \in {"white", "black"} : TimerTick(player)

SpecAsync == Init /\ [][NextAsync]_vars

(***************************************************************************)
(* Two peers.  The local tab plays white and holds gameState, the remote   *)
(* tab plays black and holds net.remote; the channel delivers every        *)
(* message, in the order it was sent.  Each tab sends requestState once,   *)
(* after its connection; a tab answers a requestState with its snapshot,   *)
(* broadcasts its snapshot after each move it makes, and applies each      *)
(* snapshot it receives.  A move stands for the two clicks that make it,   *)
(* with the broadcast of the animation frame that follows; snapshots are   *)
(* applied without another event in between; no clock tick is delivered.   *)
(***************************************************************************)
\* most messages in flight in one direction
MaxInFlight == 3

RequestState == [type |-> "requestState", data |-> <<>>]

GameStateMessage(gs) == [type |-> "gameState", data |-> serializeForMultiplayer(gs)]

\* a gate that lets every click through while the game runs
canMoveOnAnyTurn(gs, localPlayerColor) == ~gs.gameOver

\* canMakeMove() of multiplayer.js for the tab that plays the colour
canMakeMove(gs, localPlayerColor) == ~gs.gameOver /\ gs.turn = localPlayerColor

\* the moves a tab makes: the next move of FoolsMate in the game it holds
PeerInputs(gs) ==
  LET n == Len(gs.moveHistory)
  IN IF n < Len(FoolsMate) /\ SubSeq(FoolsMate, 1, n) = Played(gs)
     THEN {FoolsMate[n + 1]}
     ELSE {}

\* the game after the click on the piece and the click on its destination
MoveClicked(gs, m) ==
  [PlayedFrom(gs, <<m[1], m[2]>>, Mv(m[3], m[4])) EXCEPT !.selectedSquare = NoSquare,
                                                          !.legalMoves = {}]

\* the game after handleGameStateMessage(data) has run to its end
SnapshotApplied(gs, data) ==
  IF IsValidPayload(data) THEN ResumeSnapshot(BeginSnapshot(gs, data)).state
  ELSE stopAllTimers(gs)

\* the setTimeout callback of enableMultiplayer in the local tab
LocalRequestsState ==
  /\ "white" \notin net.asked
  /\ Len(net.toRemote) < MaxInFlight
  /\ net' = [net EXCEPT !.asked = @ \cup {"white"}, !.toRemote = Append(@, RequestState)]
  /\ UNCHANGED <<gameState, dispatched, synced, orphans, pending>>

\* the setTimeout callback of enableMultiplayer in the remote tab
RemoteRequestsState ==
  /\ "black" \notin net.asked
  /\ Len(net.toLocal) < MaxInFlight
  /\ net' = [net EXCEPT !.asked = @ \cup {"black"}, !.toLocal = Append(@, RequestState)]
  /\ UNCHANGED <<gameState, dispatched, synced, orphans, pending>>

\* the local player makes a move and the tab broadcasts its snapshot
LocalMoves(m) ==
  /\ canMakeMove(gameState, "white")
  /\ Len(net.toRemote) < MaxInFlight
  /\ gameState' = MoveClicked(gameState, m)
  /\ dispatched' = <<>>
  /\ synced' = FALSE
  /\ net' = [net EXCEPT !.toRemote = Append(@, GameStateMessage(gameState'))]
  /\ UNCHANGED <<orphans, pending>>

\* the remote player makes a move and the tab broadcasts its snapshot
RemoteMoves(m) ==
  /\ canMakeMove(net.remote, "black")
  /\ Len(net.toLocal) < MaxInFlight
  /\ net' = [net EXCEPT !.remote = MoveClicked(net.remote, m),
                        !.toLocal = Append(@, GameStateMessage(MoveClicked(net.remote, m)))]
  /\ UNCHANGED <<gameState, dispatched, synced, orphans, pending>>

\* the message listener of the local tab, for the message at the head of the channel
LocalReceives ==
  /\ net.toLocal # <<>>
  /\ IF Head(net.toLocal).type = "requestState"
     THEN /\ Len(net.toRemote) < MaxInFlight
          /\ net' = [net EXCEPT !.toLocal = Tail(@),
                                !.toRemote = Append(@, GameStateMessage(gameState))]
          /\ UNCHANGED <<gameState, dispatched, synced>>
     ELSE /\ gameState' = SnapshotApplied(gameState, Head(net.toLocal).data)
          /\ dispatched' = <<>>
          /\ synced' = TRUE
          /\ net' = [net EXCEPT !.toLocal = Tail(@)]
  /\ UNCHANGED <<orphans, pending>>

\* the message listener of the remote tab
RemoteReceives ==
  /\ net.toRemote # <<>>
  /\ IF Head(net.toRemote).type = "requestState"
     THEN /\ Len(net.toLocal) < MaxInFlight
          /\ net' = [net EXCEPT !.toRemote = Tail(@),
                                !.toLocal = Append(@, GameStateMessage(net.remote))]
     ELSE net' = [net EXCEPT !.toRemote = Tail(@),
                             !.remote = SnapshotApplied(net.remote, Head(net.toRemote).data)]
  /\ UNCHANGED <<gameState, dispatched, synced, orphans, pending>>

NextPeers ==
  \/ LocalRequestsState
  \/ RemoteRequestsState
  \/ \E m \in PeerInputs(gameState) : LocalMoves(m)
  \/ \E m \in PeerInputs(net.remote) : RemoteMoves(m)
  \/ LocalReceives
  \/ RemoteReceives

SpecPeers == Init /\ [][NextPeers]_vars

(***************************************************************************)
(* Endgames.  The positions are given as they stand after a long game: the *)
(* kings have moved, the moves that led there and the pieces taken on the  *)
(* way are left out, and no clock tick is delivered.                       *)
(***************************************************************************)
\* a piece that has moved
Man(type, color) == [type |-> type, color |-> color, hasMoved |-> TRUE]

\* the board that holds the pieces of the placement, a function from squares to pieces
BoardOf(placement) ==
  [row \in 0..7 |-> [col \in 0..7 |->
     IF <<row, col>> \in DOMAIN placement THEN placement[<<row, col>>] ELSE NoPiece]]

\* the game state with the board of the placement and the given side to move
Endgame(placement, turn) ==
  startPlayerTimer(
    [initializeBoard EXCEPT !.board = BoardOf(placement),
                            !.turn = turn,
                            !.gameHasStarted = TRUE,
                            !.players = [color \in {"white", "black"} |->
                                           [@[color] EXCEPT !.castling = [kingside |-> FALSE,
                                                                          queenside |-> FALSE]]]],
    turn)

\* the kings on e1 and e8
Kings == (<<7, 4>> :> Man("k", "white")) @@ (<<0, 4>> :> Man("k", "black"))

\* white knights on b1 and g1 and a black bishop on a3 that the knight on b1 attacks:
\* taking it leaves two knights against the bare king, or against a knight on h8
KnightPositions ==
  {Endgame(Kings @@ (<<7, 1>> :> Man("n", "white")) @@ (<<7, 6>> :> Man("n", "white"))
                 @@ (<<5, 0>> :> Man("b", "black")), "white"),
   Endgame(Kings @@ (<<7, 1>> :> Man("n", "white")) @@ (<<7, 6>> :> Man("n", "white"))
                 @@ (<<5, 0>> :> Man("b", "black")) @@ (<<0, 7>> :> Man("n", "black")), "white")}

\* a bishop each and a knight on a3 that the other side's bishop attacks: taking it
\* leaves bishops on squares of the same colour (c1 or a3, and f8) or of different
\* colours (c1 and c8; f1 and a3)
EndgamePositions ==
  {Endgame(Kings @@ (<<7, 2>> :> Man("b", "white")) @@ (<<0, 5>> :> Man("b", "black"))
                 @@ (<<5, 0>> :> Man("n", "black")), "white"),
   Endgame(Kings @@ (<<7, 2>> :> Man("b", "white")) @@ (<<0, 2>> :> Man("b", "black"))
                 @@ (<<5, 0>> :> Man("n", "black")), "white"),
   Endgame(Kings @@ (<<7, 2>> :> Man("b", "white")) @@ (<<0, 5>> :> Man("b", "black"))
                 @@ (<<5, 0>> :> Man("n", "white")), "black"),
   Endgame(Kings @@ (<<7, 5>> :> Man("b", "white")) @@ (<<0, 5>> :> Man("b", "black"))
                 @@ (<<5, 0>> :> Man("n", "white")), "black")}
  \cup KnightPositions

\* longest continuation of an endgame, in plies
EndgamePly == 2

InitEndgame ==
  /\ gameState \in EndgamePositions
  /\ dispatched = <<>>
  /\ synced = FALSE
  /\ orphans = {}
  /\ pending = 0
  /\ net = PeersAtStart

NextEndgame ==
  /\ Len(gameState.moveHistory) < EndgamePly
  /\ \E row \in 0..7, col \in 0..7 : HandleSquareClick(row, col)

SpecEndgame == InitEndgame /\ [][NextEndgame]_vars

(***************************************************************************)
(* C1                                                                      *)
(***************************************************************************)
\* C1: no move that getLegalMoves returns for a piece of the side to move leaves that
\* side's king on a square an opposing piece attacks once makeMove has played it.
C1_NoLegalMoveLeavesOwnKingAttacked ==
  \A sq \in OwnSquares(gameState) :
     LET legal == getLegalMoves(gameState, sq[1], sq[2])
     IN \A m \in legal :
           ~KingAttacked(BoardAfterMove(gameState, sq[1], sq[2], m.row, m.col,
                                        FindMove(legal, m.row, m.col)),
                         gameState.turn)

\* a position in which the self-check filter removes a candidate of a piece that
\* keeps other moves
C1_Witness ==
  \E sq \in OwnSquares(gameState) :
     /\ getLegalMoves(gameState, sq[1], sq[2]) # {}
     /\ getLegalMoves(gameState, sq[1], sq[2]) # PseudoLegalMoves(gameState, sq[1], sq[2])

(***************************************************************************)
(* C2, C3, C4: replay against live play                                    *)
(***************************************************************************)
\* the state a peer rebuilds from the snapshot of this state
Replayed(gs) == deserializeFromMultiplayer(gs, serializeForMultiplayer(gs)).state

Captures(gs) == [color \in {"white", "black"} |-> gs.players[color].captures]

\* C2: replaying the recorded history of a live game gives the board (kind, colour and
\* hasMoved on every square), both capture strings, lastMove and moveCount of the live game.
C2_ReplayEqualsLive ==
  ~synced =>
     LET replay == Replayed(gameState)
     IN /\ replay.board = gameState.board
        /\ Captures(replay) = Captures(gameState)
        /\ replay.lastMove = gameState.lastMove
        /\ replay.moveCount = gameState.moveCount

\* a live game in which a pawn has just promoted with a capture
C2_Witness ==
  /\ ~synced
  /\ MoveApplied
  /\ LastRecord(gameState).promotedPiece = "q"
  /\ LastRecord(gameState).isCapture

\* C3: serializing any position and replaying the snapshot gives a state with the
\* position signature the position had before it was serialized.
C3_RoundTripKeepsSignature ==
  getPositionSignature(Replayed(gameState)) = getPositionSignature(gameState)

\* a live position right after castling
C3_Witness ==
  /\ ~synced
  /\ MoveApplied
  /\ LastRecord(gameState).isCastling = "true"

\* C4: the positionHistory rebuilt by a replay is the positionHistory of the live game
\* that played the same moves.
C4_ReplayedHistoryEqualsLive ==
  ~synced => Replayed(gameState).positionHistory = gameState.positionHistory

(***************************************************************************)
(* C5, C6: threefold repetition                                            *)
(***************************************************************************)
StartSignature == getPositionSignature(initializeBoard)

\* C5: in a live game the move that brings the starting position back so that it has
\* occurred three times, the pre-game position counted, ends the game by repetition.
C5_StartPositionCountsAsFirstOccurrence ==
  ( /\ ~synced
    /\ MoveApplied
    /\ getPositionSignature(gameState) = StartSignature
    /\ 1 + CountOf(gameState.positionHistory, StartSignature) >= 3 )
  => gameState.gameOver /\ gameState.gameResult = "repetition"

\* the signatures of all positions of the game, the pre-game position first, as the
\* recorded moves produce them
PositionsOfGame(gs) == reconstructBoardFromMoveHistory(gs).positionHistory

\* C6: a game has the result 'repetition' only if its final position has occurred at
\* least three times in the game, the final occurrence included.
C6_RepetitionOnlyAtThirdOccurrence ==
  gameState.gameResult = "repetition" =>
     CountOf(PositionsOfGame(gameState), getPositionSignature(gameState)) >= 3

\* a game that was continued after a replay and ended by repetition on a later move
C6_Witness ==
  /\ synced
  /\ MoveApplied
  /\ gameState.gameResult = "repetition"

(***************************************************************************)
(* C7: castling                                                            *)
(***************************************************************************)
\* C7: no castling move is offered while the king is attacked, or while the square it
\* crosses or the square it lands on is attacked by an opposing piece.
C7_NoCastlingOutOfOrThroughAttack ==
  \A sq \in OwnSquares(gameState) :
     gameState.board[sq[1]][sq[2]].type = "k" =>
        \A m \in getLegalMoves(gameState, sq[1], sq[2]) :
           m.isCastling =>
              \A col \in {sq[2], (sq[2] + m.col) \div 2, m.col} :
                 ~Attacked(gameState.board, sq[1], col, Opponent(gameState.turn))

(***************************************************************************)
(* C8: en passant                                                          *)
(***************************************************************************)
\* C8: an en-passant capture is offered to the side to move only if the last recorded
\* move is the double step of the opposing pawn that stands beside the capturing pawn,
\* on the file the capture goes to; so it is offered in no later position.
C8_EnPassantOnlyRightAfterDoubleStep ==
  \A sq \in OwnSquares(gameState) :
     \A m \in getLegalMoves(gameState, sq[1], sq[2]) :
        m.isEnPassant =>
           /\ gameState.moveHistory # <<>>
           /\ LET last == LastRecord(gameState)
                  victim == gameState.board[sq[1]][m.col]
              IN /\ last.piece.type = "p"
                 /\ last.player = Opponent(gameState.turn)
                 /\ Abs(last.toRow - last.fromRow) = 2
                 /\ last.toRow = sq[1] /\ last.toCol = m.col
                 /\ victim.type = "p" /\ victim.color = Opponent(gameState.turn)

\* a position in which an en-passant capture is offered
C8_Witness ==
  \E sq \in OwnSquares(gameState) :
     \E m \in getLegalMoves(gameState, sq[1], sq[2]) : m.isEnPassant

(***************************************************************************)
(* C9: checkmate                                                           *)
(***************************************************************************)
\* the side to move has a legal move
CanMove(gs) == \E sq \in OwnSquares(gs) : getLegalMoves(gs, sq[1], sq[2]) # {}

\* the gameEnd events among those the last handler dispatched
GameEnds == {i \in 1..Len(dispatched) : dispatched[i].type = "gameEnd"}

\* C9: after a move that leaves the opponent's king attacked with no legal move, the
\* game is over with result 'checkmate' and gameEnd names the mover as winner.
C9_CheckmateNamesTheMover ==
  ( /\ MoveApplied
    /\ KingAttacked(gameState.board, gameState.turn)
    /\ ~CanMove(gameState) )
  => /\ gameState.gameOver
     /\ gameState.gameResult = "checkmate"
     /\ GameEnds # {}
     /\ \A i \in GameEnds :
           dispatched[i].detail = [result |-> "checkmate", winner |-> LastRecord(gameState).player]

\* the position after 1.f3 e5 2.g4 Qh4
C9_Witness ==
  /\ MoveApplied
  /\ Played(gameState) = <<<<6, 5, 5, 5>>, <<1, 4, 3, 4>>, <<6, 6, 4, 6>>, <<0, 3, 4, 7>>>>
  /\ KingAttacked(gameState.board, "white")

(***************************************************************************)
(* C10: move counts from the starting position                             *)
(***************************************************************************)
\* the legal moves of the side to move, each with its origin square
AllLegalMoves(gs) ==
  UNION {{<<sq, m>> : m \in getLegalMoves(gs, sq[1], sq[2])} : sq \in OwnSquares(gs)}

\* the sequences of two legal moves, the first one applied with makeMove
TwoPlySequences(gs) ==
  UNION {{<<first, second>> : second \in AllLegalMoves(PlayedFrom(gs, first[1], first[2]))} :
           first \in AllLegalMoves(gs)}

\* C10: the starting position has 20 legal moves and 400 legal two-ply sequences.
C10_PerftFromStart ==
  (gameState.moveCount = 0 /\ gameState.board = StartBoard) =>
     /\ Cardinality(AllLegalMoves(gameState)) = 20
     /\ Cardinality(TwoPlySequences(gameState)) = 400

\* the starting position with a knight selected and its two moves listed
C10_Witness ==
  /\ gameState.moveCount = 0
  /\ gameState.board = StartBoard
  /\ gameState.selectedSquare = [row |-> 7, col |-> 6]
  /\ Cardinality(gameState.legalMoves) = 2

(***************************************************************************)
(* C11: a rook captured on its home corner                                 *)
(***************************************************************************)
\* the row of the colour's back rank: rank 1 is row 7, rank 8 is row 0
HomeRow(color) == IF color = "white" THEN 7 ELSE 0

\* the castling side of a corner file
SideOf(col) == IF col = 7 THEN "kingside" ELSE "queenside"

\* this step applies a move
MoveStep ==
  /\ Len(gameState'.moveHistory) = Len(gameState.moveHistory) + 1
  /\ SubSeq(gameState'.moveHistory, 1, Len(gameState.moveHistory)) = gameState.moveHistory

\* C11: when a move captures a rook that stands on a home corner of its own colour,
\* the owner's castling right on that side is false after the move.
C11_CapturedHomeRookClearsRight ==
  [][MoveStep =>
       LET record == LastRecord(gameState')
           victim == gameState.board[record.toRow][record.toCol]
       IN (/\ victim.type = "r"
           /\ record.toCol \in {0, 7}
           /\ record.toRow = HomeRow(victim.color))
          => ~gameState'.players[victim.color].castling[SideOf(record.toCol)]]_vars

(***************************************************************************)
(* C12: castling rights are never restored                                 *)
(***************************************************************************)
\* this step stays within the game: the recorded moves are kept, at most one is added
SameGameStep ==
  /\ Len(gameState'.moveHistory) >= Len(gameState.moveHistory)
  /\ SubSeq(gameState'.moveHistory, 1, Len(gameState.moveHistory)) = gameState.moveHistory

\* a recorded move left from or arrived on the square: the rook that began the game
\* there has moved or has been captured
SquareTouched(gs, row, col) ==
  \E i \in 1..Len(gs.moveHistory) :
     \/ gs.moveHistory[i].fromRow = row /\ gs.moveHistory[i].fromCol = col
     \/ gs.moveHistory[i].toRow = row /\ gs.moveHistory[i].toCol = col

\* no castling is offered to the colour's king with the rook of a touched corner
NoCastlingWithMovedRook ==
  \A color \in {"white", "black"}, rookCol \in {0, 7} :
     SquareTouched(gameState, HomeRow(color), rookCol) =>
        \A m \in getLegalMoves(gameState, HomeRow(color), 4) : ~(m.isCastling /\ m.rookCol = rookCol)

\* C12: within one game a castling right that is false stays false, and no castling is
\* offered with a rook that has moved, also after the rook is back on its corner.
C12_RightsAreNeverRestored ==
  /\ []NoCastlingWithMovedRook
  /\ [][SameGameStep =>
          \A color \in {"white", "black"}, side \in {"kingside", "queenside"} :
             ~gameState.players[color].castling[side] => ~gameState'.players[color].castling[side]]_vars

\* white's h-rook is back on h1, f1 and g1 are empty, the king on e1 is selected and
\* its moves hold no castling, the right being false
C12_Witness ==
  /\ gameState.moveCount = 10
  /\ gameState.board[7][7] = [type |-> "r", color |-> "white", hasMoved |-> TRUE]
  /\ ~Truthy(gameState.board[7][5]) /\ ~Truthy(gameState.board[7][6])
  /\ gameState.selectedSquare = [row |-> 7, col |-> 4]
  /\ gameState.legalMoves # {}
  /\ \A m \in gameState.legalMoves : ~m.isCastling
  /\ ~gameState.players["white"].castling.kingside
  /\ ~gameState.players["black"].castling.kingside /\ ~gameState.players["black"].castling.queenside

(***************************************************************************)
(* C13: castling rights after a replay                                     *)
(***************************************************************************)
Castling(gs) == [color \in {"white", "black"} |-> gs.players[color].castling]

\* C13: the replay of the recorded moves yields the castling rights of the live game.
C13_ReplayedRightsEqualLive ==
  ~synced => Castling(Replayed(gameState)) = Castling(gameState)

(***************************************************************************)
(* C14: one king of each colour                                            *)
(***************************************************************************)
KingsOf(board, color) ==
  {sq \in Squares : board[sq[1]][sq[2]].type = "k" /\ board[sq[1]][sq[2]].color = color}

\* C14: the board holds exactly one king of each colour, and no move offered to the
\* player lands on a king.
C14_OneKingOfEachColour ==
  /\ \A color \in {"white", "black"} : Cardinality(KingsOf(gameState.board, color)) = 1
  /\ \A m \in gameState.legalMoves : gameState.board[m.row][m.col].type # "k"

\* after 1.e4 d5 2.Bb5+ black, in check, has selected the a-pawn: it has no move, and
\* the bishop that attacks the king is still on b5
C14_Witness ==
  /\ gameState.moveCount = 3
  /\ gameState.board[3][1] = [type |-> "b", color |-> "white", hasMoved |-> TRUE]
  /\ KingAttacked(gameState.board, "black")
  /\ gameState.selectedSquare = [row |-> 1, col |-> 0]
  /\ gameState.legalMoves = {}

(***************************************************************************)
(* C15: a malformed payload is refused whole                               *)
(***************************************************************************)
\* C15: deserializeFromMultiplayer fails on a payload without moveHistory, without turn
\* or with a clock value that is not a number, and leaves the game state as it was.
C15_MalformedPayloadIsRefused ==
  \A data \in MalformedPayloads :
     LET refused == deserializeFromMultiplayer(gameState, data)
     IN /\ refused.error
        /\ refused.state = gameState
        /\ refused.events = <<>>

\* a game in progress after its first moves in which no clock runs: the state in which
\* the handler of a malformed payload leaves a game
C15_Witness ==
  /\ ~gameState.gameOver
  /\ Len(gameState.moveHistory) = 2
  /\ Len(gameState.positionHistory) = 2
  /\ gameState.turn = "white"
  /\ Running(gameState) = {}
  /\ ~synced

(***************************************************************************)
(* C16: the game goes on after a malformed payload                         *)
(***************************************************************************)
\* the remaining time of both players
Clocks(gs) == [color \in {"white", "black"} |-> gs.players[color].timeRemaining]

\* C16: the handler of a malformed payload leaves board, side to move, histories and
\* clock values as they were, and the clock of the side to move of a game in progress,
\* if it ran, still runs.
C16_GameGoesOnAfterMalformedPayload ==
  [][(\E data \in MalformedPayloads : HandleGameStateMessage(data)) =>
       /\ gameState'.board = gameState.board
       /\ gameState'.turn = gameState.turn
       /\ gameState'.moveHistory = gameState.moveHistory
       /\ gameState'.positionHistory = gameState.positionHistory
       /\ Clocks(gameState') = Clocks(gameState)
       /\ (~gameState.gameOver /\ gameState.turn \in Running(gameState))
             => gameState.turn \in Running(gameState')]_vars

(***************************************************************************)
(* C17: a valid snapshot replaces the local game                           *)
(***************************************************************************)
\* C17: after a valid snapshot is handled, move history, side to move, clock values,
\* gameOver and gameResult are the snapshot's, the board is the one the sender reached
\* by playing the recorded moves, nothing is selected, and the only clock that runs is
\* that of the side to move of a game in progress with at least one move.
C17_SnapshotReplacesLocalGame ==
  [][\A peer \in PeerGames :
       HandleGameStateMessage(serializeForMultiplayer(peer)) =>
         /\ gameState'.moveHistory = serializeForMultiplayer(peer).moveHistory
         /\ gameState'.turn = peer.turn
         /\ Clocks(gameState') = Clocks(peer)
         /\ gameState'.gameOver = peer.gameOver
         /\ gameState'.gameResult = peer.gameResult
         /\ gameState'.board = peer.board
         /\ gameState'.selectedSquare = NoSquare
         /\ gameState'.legalMoves = {}
         /\ Running(gameState') = IF ~peer.gameOver /\ Len(peer.moveHistory) >= 1
                                  THEN {peer.turn} ELSE {}]_vars

\* the snapshot of the game that white lost on time after 1.f3 e5 has been handled
C17_Witness ==
  /\ synced
  /\ Len(gameState.moveHistory) = 2
  /\ gameState.gameOver /\ gameState.gameResult = "timeout"
  /\ gameState.players["white"].timeRemaining = 0
  /\ gameState.players["black"].timeRemaining = InitialTime
  /\ gameState.selectedSquare = NoSquare
  /\ Running(gameState) = {}
  /\ Len(dispatched) = 1 /\ dispatched[1].type = "gameEnd"

(***************************************************************************)
(* C18: reset                                                              *)
(***************************************************************************)
\* the piece that begins the game on the square, NoPiece for the middle of the board
StartingPiece(row, col) ==
  LET officers == [c \in 0..7 |-> CASE c \in {0, 7} -> "r" [] c \in {1, 6} -> "n"
                                     [] c \in {2, 5} -> "b" [] c = 3 -> "q" [] c = 4 -> "k"]
  IN CASE row = 0 -> [type |-> officers[col], color |-> "black", hasMoved |-> FALSE]
       [] row = 1 -> [type |-> "p", color |-> "black", hasMoved |-> FALSE]
       [] row = 6 -> [type |-> "p", color |-> "white", hasMoved |-> FALSE]
       [] row = 7 -> [type |-> officers[col], color |-> "white", hasMoved |-> FALSE]
       [] OTHER -> NoPiece

\* C18: a reset leaves the starting array with every hasMoved false, white to move,
\* empty histories and capture lists, full castling rights, no selection, and a game
\* that is neither over nor begun.
C18_ResetRestoresInitialState ==
  (dispatched = <<[type |-> "gameReset"]>>) =>
     /\ \A sq \in Squares : gameState.board[sq[1]][sq[2]] = StartingPiece(sq[1], sq[2])
     /\ gameState.turn = "white"
     /\ gameState.moveHistory = <<>> /\ gameState.positionHistory = <<>>
     /\ gameState.moveCount = 0 /\ gameState.lastMove = NoLastMove
     /\ \A color \in {"white", "black"} :
          /\ gameState.players[color].captures = <<>>
          /\ gameState.players[color].castling = [kingside |-> TRUE, queenside |-> TRUE]
     /\ gameState.selectedSquare = NoSquare /\ gameState.legalMoves = {}
     /\ ~gameState.gameOver /\ gameState.gameResult = Null /\ ~gameState.gameHasStarted

\* the button was pressed in a game in which black's clock ran and, before, in one in
\* which white's clock ran
C18_Witness ==
  /\ dispatched = <<[type |-> "gameReset"]>>
  /\ orphans = {"white", "black"}
  /\ gameState.board = StartBoard

MenOf(board, color) ==
  {sq \in Squares : board[sq[1]][sq[2]].color = color /\ board[sq[1]][sq[2]].type # "k"}

\* each side has a bishop and nothing else beside the king
BishopEach(board) ==
  \A color \in {"white", "black"} :
     /\ Cardinality(MenOf(board, color)) = 1
     /\ \A sq \in MenOf(board, color) : board[sq[1]][sq[2]].type = "b"

\* all bishops stand on squares of one colour
BishopsAlike(board) ==
  \A s \in MenOf(board, "white"), t \in MenOf(board, "black") :
     (s[1] + s[2]) % 2 = (t[1] + t[2]) % 2

\* C20: with a bishop each, hasInsufficientMaterial holds iff the bishops stand on
\* squares of the same colour, whoever is to move; the move that produces such a
\* position without mate or stalemate ends the game as a draw without winner when the
\* colours are the same and leaves it in progress when they differ.
C20_BishopEachDrawnIffAlike ==
  BishopEach(gameState.board) =>
     /\ \A turn \in {"white", "black"} :
          hasInsufficientMaterial([gameState EXCEPT !.turn = turn]) = BishopsAlike(gameState.board)
     /\ (MoveApplied /\ CanMove(gameState)) =>
          IF BishopsAlike(gameState.board)
          THEN /\ gameState.gameOver
               /\ gameState.gameResult \notin {Null, "checkmate", "timeout"}
               /\ Len(dispatched) = 3 /\ dispatched[3].type = "gameEnd"
               /\ dispatched[3].detail.winner = Null
          ELSE /\ ~gameState.gameOver
               /\ gameState.gameResult = Null
               /\ GameEnds = {}

\* white's bishop has taken the knight on a3: bishops on a3 and f8, the game is drawn
C20_Witness ==
  /\ MoveApplied
  /\ BishopEach(gameState.board)
  /\ gameState.board[5][0] = Man("b", "white")
  /\ gameState.board[0][5] = Man("b", "black")
  /\ gameState.gameOver
  /\ dispatched[3].detail.winner = Null

(***************************************************************************)
(* C21: knights only                                                       *)
(***************************************************************************)
\* every piece of both sides other than the kings is a knight
OnlyKnights(board) ==
  \A sq \in Squares :
     Truthy(board[sq[1]][sq[2]]) => board[sq[1]][sq[2]].type \in {"k", "n"}

\* C21: hasInsufficientMaterial returns true in every position in which neither side
\* has anything but knights beside its king, however many knights each side has.
C21_OnlyKnightsIsInsufficient ==
  OnlyKnights(gameState.board) => hasInsufficientMaterial(gameState)

(***************************************************************************)
(* C22: move generation leaves the game as it found it                     *)
(***************************************************************************)
\* the candidates wouldMoveCauseCheck is called with for the piece on a square
Candidates(gs, sq) == getLegalMovesUnfiltered(gs, sq[1], sq[2])

\* C22: in every reachable position, for every square and every candidate of the piece
\* on it (captures and en passant included), the board that wouldMoveCauseCheck leaves
\* is the board it found, piece by piece with kind, colour and hasMoved; the trial
\* differs from it, and nothing else of the game is written by getLegalMoves,
\* hasAnyLegalMoves, isCheckmate, isStalemate and findAmbiguousPieces, which only call
\* wouldMoveCauseCheck candidate after candidate.
C22_MoveGenerationIsPure ==
  \A sq \in Squares : \A move \in Candidates(gameState, sq) :
     LET trial == TrialBoard(gameState, sq[1], sq[2], move.row, move.col, move)
     IN /\ trial # gameState.board
        /\ RestoredBoard(gameState, trial, sq[1], sq[2], move.row, move.col, move) = gameState.board

\* a position in which one piece has an en passant candidate and another a capture
C22_Witness ==
  /\ \E sq \in Squares : \E move \in Candidates(gameState, sq) : move.isEnPassant
  /\ \E sq \in Squares : \E move \in Candidates(gameState, sq) :
        ~move.isEnPassant /\ Truthy(gameState.board[move.row][move.col])

(***************************************************************************)
(* C23: only a piece of the side to move is selected and moved             *)
(***************************************************************************)
\* a selection holds a piece of the side to move together with the list getLegalMoves
\* returns for it in the current position; without a selection the list is empty
SelectionIsOwn(gs) ==
  IF gs.selectedSquare = NoSquare THEN gs.legalMoves = {}
  ELSE /\ gs.board[gs.selectedSquare.row][gs.selectedSquare.col].color = gs.turn
       /\ gs.legalMoves = getLegalMoves(gs, gs.selectedSquare.row, gs.selectedSquare.col)

\* the move just recorded started from a piece of the side that was to move and ended
\* on a destination of that piece's legal moves in the position it was played in
MoveWasLegal ==
  LET move == LastRecord(gameState')
      piece == gameState.board[move.fromRow][move.fromCol]
  IN /\ piece.color = gameState.turn
     /\ move.player = gameState.turn
     /\ \E legal \in getLegalMoves(gameState, move.fromRow, move.fromCol) :
           legal.row = move.toRow /\ legal.col = move.toCol

\* C23: getLegalMoves returns nothing for an empty square, and although it returns the
\* moves of a piece of the side not to move, handleSquareClick never selects such a
\* square nor stores a list for it: every selection is a piece of the side to move with
\* its legal moves for the current position, and every executed move starts from such a
\* piece and ends on a destination of its list.
C23_OnlyOwnPiecesAreSelectedAndMoved ==
  /\ [](/\ SelectionIsOwn(gameState)
        /\ \A sq \in Squares : ~Truthy(gameState.board[sq[1]][sq[2]]) =>
              getLegalMoves(gameState, sq[1], sq[2]) = {})
  /\ [][MoveStep => MoveWasLegal]_vars

\* a move has been made, a piece of the side now to move is selected, and a piece of
\* the other side, which is not selectable, has moves that getLegalMoves would return
C23_Witness ==
  /\ Len(gameState.moveHistory) > 0
  /\ gameState.selectedSquare # NoSquare
  /\ gameState.legalMoves # {}
  /\ \E sq \in Squares :
        /\ Truthy(gameState.board[sq[1]][sq[2]])
        /\ gameState.board[sq[1]][sq[2]].color # gameState.turn
        /\ getLegalMoves(gameState, sq[1], sq[2]) # {}

(***************************************************************************)
(* C24: the winner of a game lost on time, as announced to the peer        *)
(***************************************************************************)
\* C24: when the snapshot of a game that ended by timeout is applied, the gameEnd
\* event that deserializeFromMultiplayer dispatches names the player who did not run
\* out of time, the winner that handleTimeUp named where the clock expired.
C24_PeerNamesWinnerOnTime ==
  (synced /\ gameState.gameOver /\ gameState.gameResult = "timeout") =>
     /\ Len(dispatched) = 1
     /\ dispatched[1].type = "gameEnd"
     /\ dispatched[1].detail.result = "timeout"
     /\ gameState.players[dispatched[1].detail.winner].timeRemaining > 0
     /\ dispatched[1].detail.winner = TimeUpOnPeer.events[1].detail.winner

(***************************************************************************)
(* C25: two snapshots received one after the other                         *)
(***************************************************************************)
\* the local state once the handlers of snapshot A and then snapshot B have ended:
\* either B is received while the handler of A is suspended, or after it has ended
AfterTwoSnapshots(gs, A, B, overlapped) ==
  IF overlapped
  THEN ResumeSnapshot(ResumeSnapshot(BeginSnapshot(BeginSnapshot(gs, A), B)).state).state
  ELSE ResumeSnapshot(BeginSnapshot(ResumeSnapshot(BeginSnapshot(gs, A)).state, B)).state

\* C25: whatever the local state, when two valid snapshots A and B are received in
\* this order, then however the two handlers interleave, the final board is the
\* position of B and positionHistory has one entry more than B has moves.
C25_LastSnapshotWins ==
  pending = 0 =>
    \A A \in PeerSnapshots, B \in PeerSnapshots, overlapped \in BOOLEAN :
       LET final == AfterTwoSnapshots(gameState, A, B, overlapped)
       IN /\ final.board = reconstructBoardFromMoveHistory(ApplySnapshot(gameState, B)).board
          /\ final.moveHistory = ApplySnapshot(gameState, B).moveHistory
          /\ Len(final.positionHistory) = Len(B.moveHistory) + 1

(***************************************************************************)
(* C26: a snapshot is applied in one piece                                 *)
(***************************************************************************)
\* a handler is suspended with the board at the starting array while moveHistory is
\* the snapshot's
HalfRebuilt ==
  /\ pending > 0
  /\ gameState.board = StartBoard
  /\ gameState.moveHistory # <<>>

\* C26: while a snapshot is being applied, between the assignment of moveHistory and
\* turn and the end of the replay, no square click and no clock tick acts on the
\* half-rebuilt state: the only steps taken from it are those of message handlers,
\* which suspend or resume.
C26_SnapshotIsAppliedAtomically ==
  [][HalfRebuilt => pending' # pending]_vars

(***************************************************************************)
(* C27: two peers converge                                                 *)
(***************************************************************************)
\* no message is in flight
Quiet == net.toLocal = <<>> /\ net.toRemote = <<>>

\* C27: with a white and a black tab, a channel that delivers every message in order
\* and no reset, whenever every snapshot that was broadcast has been delivered and
\* handled, both tabs hold the same move history (as JSON writes it), side to move and
\* board.
C27_PeersConverge ==
  Quiet =>
    /\ serializeForMultiplayer(gameState).moveHistory =
          serializeForMultiplayer(net.remote).moveHistory
    /\ gameState.turn = net.remote.turn
    /\ gameState.board = net.remote.board

(***************************************************************************)
(* C28: a clock that is not running                                        *)
(***************************************************************************)
\* the step raises the time-expired event for the player
RaisesTimeUp(player) ==
  /\ dispatched' # <<>>
  /\ dispatched'[1] = [type |-> "timeUp", detail |-> [player |-> player]]

\* the step is a tick that takes time off the player's clock: no snapshot is applied
\* (the only snapshot with less time on a clock is that of a game lost on time, which
\* dispatches gameEnd) and no time-expired event is raised
CountsDown(player) ==
  /\ gameState'.players[player].timeRemaining < gameState.players[player].timeRemaining
  /\ dispatched' = <<>>

\* C28: a clock is decremented, and the time-expired event is raised for it, only while
\* its timerInterval is non-null: after stopPlayerTimer, stopAllTimers or a reset
\* nothing happens to it until startPlayerTimer starts it again.
C28_OnlyARunningClockCountsDown ==
  [][\A player \in {"white", "black"} :
       (CountsDown(player) \/ RaisesTimeUp(player)) => player \in Running(gameState)]_vars

(***************************************************************************)
(* C29: one clock, that of the side to move                                *)
(***************************************************************************)
\* C29: at most one clock is recorded as running, it is the clock of the side to
\* move, and it runs only in a game that is not over and in which a move has been
\* made; after a move that does not end the game the clock of the side to move runs,
\* and after a move that ends it, a timeout or the snapshot of a game that is over,
\* none runs.
C29_OnlyTheClockOfTheSideToMoveRuns ==
  /\ Cardinality(Running(gameState)) <= 1
  /\ Running(gameState) \subseteq {gameState.turn}
  /\ Running(gameState) # {} =>
        ~gameState.gameOver /\ gameState.gameHasStarted /\ Len(gameState.moveHistory) >= 1
  /\ gameState.gameOver => Running(gameState) = {}
  /\ (MoveApplied /\ ~gameState.gameOver) => Running(gameState) = {gameState.turn}

\* black has answered 1.f3 with 1...e5 and 2.g4 was played: black's clock runs,
\* white's does not
C29_Witness ==
  /\ MoveApplied
  /\ Len(gameState.moveHistory) = 3
  /\ gameState.turn = "black"
  /\ Running(gameState) = {"black"}
  /\ gameState.players["white"].timerInterval = Null

(***************************************************************************)
(* C30: a game that is over stays as it is                                 *)
(***************************************************************************)
\* the step is a click on some square, or a tick of some clock
ClickOrTick ==
  \/ \E row \in 0..7, col \in 0..7 : HandleSquareClick(row, col)
  \/ \E player \in {"white", "black"} : TimerTick(player)

\* the step leaves the game and its verdict as they are and starts no clock
StaysTerminal ==
  /\ gameState'.gameOver
  /\ gameState'.gameResult = gameState.gameResult
  /\ gameState'.board = gameState.board
  /\ gameState'.turn = gameState.turn
  /\ gameState'.moveHistory = gameState.moveHistory
  /\ Running(gameState') = {}
  /\ \A i \in 1..Len(dispatched') : dispatched'[i].type \notin {"gameEnd", "timeUp", "moveMade"}

\* C30: once gameOver is true, no click and no tick of a clock changes the board, the
\* side to move, the move history or the result, none announces a winner or raises the
\* time-expired event, and none starts a clock; handleTimeUp itself changes nothing
\* and dispatches nothing.  Only a reset or a snapshot leaves the terminal state.
C30_GameOverIsTerminal ==
  /\ [](gameState.gameOver =>
          \A player \in {"white", "black"} :
             /\ handleTimeUp(gameState, player).events = <<>>
             /\ handleTimeUp(gameState, player).state = gameState
             /\ startPlayerTimer(gameState, player) = gameState)
  /\ [][(gameState.gameOver /\ ClickOrTick) => StaysTerminal]_vars

\* the game was lost on time, and the interval that a reset left registered has fired
\* since: nothing was dispatched and the result stands
C30_Witness ==
  /\ gameState.gameOver
  /\ gameState.gameResult = "timeout"
  /\ orphans # {}
  /\ dispatched = <<>>
  /\ Running(gameState) = {}

(***************************************************************************)
(* C31: precedence of the verdicts                                         *)
(***************************************************************************)
\* the position the last move produced had been recorded twice before that move, as
\* positionHistory records positions
SeenTwiceBefore(gs) ==
  LET n == Len(gs.positionHistory)
  IN Cardinality({i \in 1..(n - 1) : gs.positionHistory[i] = gs.positionHistory[n]}) >= 2

\* the result that the precedence checkmate, repetition, stalemate or insufficient
\* material gives the position, Null when none of them holds
ResultByPrecedence(gs) ==
  IF KingAttacked(gs.board, gs.turn) /\ ~CanMove(gs) THEN "checkmate"
  ELSE IF SeenTwiceBefore(gs) THEN "repetition"
  ELSE IF ~CanMove(gs) \/ hasInsufficientMaterial(gs) THEN "stalemate"
  ELSE Null

GatePly == 4

\* the games the peer broadcasts: those along FoolsMate
GatePeerGames == {GameAfter(FoolsMate, n) : n \in 0..Len(FoolsMate)}

\* the squares the player of the tab clicks: those the moves of FoolsMate leave and reach
GateInputs(gs) ==
  IF Len(gs.moveHistory) < GatePly
  THEN {<<FoolsMate[i][1], FoolsMate[i][2]>> : i \in DOMAIN FoolsMate}
          \cup {<<FoolsMate[i][3], FoolsMate[i][4]>> : i \in DOMAIN FoolsMate}
  ELSE {}

\* handleSquareClick(row, col) while isMultiplayerActive(): the click is dropped
\* unless canMakeMove()
HandleSquareClickInMultiplayer(row, col) ==
  /\ canMakeMove(gameState, net.localPlayerColor)
  /\ HandleSquareClick(row, col)

\* setPlayerColor(color) of multiplayer.js
SetPlayerColor(color) ==
  /\ color # net.localPlayerColor
  /\ net' = [net EXCEPT !.localPlayerColor = color]
  /\ UNCHANGED <<gameState, dispatched, synced, orphans, pending>>

InitGate ==
  /\ gameState = initializeBoard
  /\ dispatched = <<>>
  /\ synced = FALSE
  /\ orphans = {}
  /\ pending = 0
  /\ net \in {[PeersAtStart EXCEPT !.localPlayerColor = color] : color \in {"white", "black"}}

NextGate ==
  \/ \E sq \in GateInputs(gameState) : HandleSquareClickInMultiplayer(sq[1], sq[2])
  \/ \E data \in {serializeForMultiplayer(gs) : gs \in GatePeerGames} : HandleGameStateMessage(data)
  \/ \E color \in {"white", "black"} : SetPlayerColor(color)

SpecGate == InitGate /\ [][NextGate]_vars

(***************************************************************************)
(* C32: the multiplayer gate                                               *)
(***************************************************************************)
\* the step is a click that selected a piece or made a move
ClickTookEffect ==
  /\ \/ gameState'.selectedSquare \notin {NoSquare, gameState.selectedSquare}
     \/ MoveApplied' /\ Len(gameState'.moveHistory) > Len(gameState.moveHistory)
  /\ \E row \in 0..7, col \in 0..7 : HandleSquareClick(row, col)

\* C32: while multiplayer is active, a click changes the selection or makes a move only
\* if the colour of the tab is white or black and is the side to move and the game is
\* not over; the move it makes is recorded as a move of the tab's colour.
C32_OnlyTheSideToMoveClicks ==
  [][ClickTookEffect =>
       /\ net.localPlayerColor \in {"white", "black"}
       /\ gameState.turn = net.localPlayerColor
       /\ ~gameState.gameOver
       /\ Len(gameState'.moveHistory) > Len(gameState.moveHistory)
            => LastRecord(gameState').player = net.localPlayerColor]_vars

\* the tab that plays black has answered a move received from the peer
C32_Witness ==
  /\ MoveApplied
  /\ net.localPlayerColor = "black"
  /\ LastRecord(gameState).player = "black"
  /\ Len(gameState.moveHistory) >= 2

(***************************************************************************)
(* C33: the clock of the side to move runs down                            *)
(***************************************************************************)
\* the game is in progress after at least one move and the clock of the side to move
\* is the one that runs
ClockRunsDown ==
  /\ ~gameState.gameOver
  /\ gameState.moveHistory # <<>>
  /\ Running(gameState) = {gameState.turn}

TimeLeft(gs) == gs.players[gs.turn].timeRemaining

\* the step is a tick of the clock of the side to move
TickOfMover == ClockRunsDown /\ TimerTick(gameState.turn)

\* the step is a tick of a clock
AnyTick == \E player \in {"white", "black"} : TimerTick(player)

\* the events of the type among those dispatched
EventsOf(type) == {i \in DOMAIN dispatched : dispatched[i].type = type}

AtHome(gs, color, type, col) ==
  LET piece == gs.board[HomeRow(color)][col]
  IN piece.type = type /\ piece.color = color /\ ~piece.hasMoved

\* C34: while the king and the h-file rook of a colour stand on their home squares and
\* have never moved, the colour's kingside right is set, and likewise the queenside
\* right with the a-file rook.
C34_RightsLastWhileKingAndRookStay ==
  \A color \in {"white", "black"} :
     AtHome(gameState, color, "k", 4) =>
        /\ AtHome(gameState, color, "r", 7) => gameState.players[color].castling.kingside
        /\ AtHome(gameState, color, "r", 0) => gameState.players[color].castling.queenside

(***************************************************************************)
(* C35: promotion                                                          *)
(***************************************************************************)
\* the record is that of a pawn that moved to a last rank
IsPromotionRecord(record) == record.piece.type = "p" /\ record.toRow \in {0, 7}

\* the square the record's move ended on holds a queen of the mover
QueenStands(gs, record) ==
  LET piece == gs.board[record.toRow][record.toCol]
  IN piece.type = "q" /\ piece.color = record.player

\* no pawn stands on rank 1 or rank 8
NoPawnOnLastRank(gs) == \A row \in {0, 7}, col \in 0..7 : gs.board[row][col].type # "p"

\* C35: no pawn ever stands on rank 1 or 8; a record has promotedPiece queen exactly if
\* it is that of a pawn that moved to a last rank; the move of a pawn to a last rank
\* leaves a queen of the mover on the destination and is recorded as a pawn move with
\* promotedPiece queen; and the board replayed from a history that ends with such a
\* record holds the queen as well.
C35_PawnOnLastRankBecomesQueen ==
  /\ [](/\ NoPawnOnLastRank(gameState)
        /\ \A i \in DOMAIN gameState.moveHistory :
             (gameState.moveHistory[i].promotedPiece = "q") = IsPromotionRecord(gameState.moveHistory[i])
        /\ (synced /\ gameState.moveHistory # <<>> /\ IsPromotionRecord(LastRecord(gameState)))
             => QueenStands(gameState, LastRecord(gameState)))
  /\ [][(/\ MoveStep
         /\ gameState.board[LastRecord(gameState').fromRow][LastRecord(gameState').fromCol].type = "p"
         /\ LastRecord(gameState').toRow \in {0, 7})
        => /\ LastRecord(gameState').piece.type = "p"
           /\ LastRecord(gameState').promotedPiece = "q"
           /\ QueenStands(gameState', LastRecord(gameState'))]_vars

\* the tab has replayed a history that ends with a promotion, and the queen stands on
\* the promotion square
C35_Witness ==
  /\ synced
  /\ gameState.moveHistory # <<>>
  /\ IsPromotionRecord(LastRecord(gameState))
  /\ LastRecord(gameState).promotedPiece = "q"
  /\ QueenStands(gameState, LastRecord(gameState))

(***************************************************************************)
(* C36: the captures strings                                               *)
(***************************************************************************)
\* the number of pieces on the board
PiecesOnBoard(gs) == Cardinality({sq \in Squares : Truthy(gs.board[sq[1]][sq[2]])})

\* the letters are q, r, b, n, p in this order
InCaptureOrder(captures) ==
  /\ \A i \in DOMAIN captures : captures[i] \in {"q", "r", "b", "n", "p"}
  /\ \A i, j \in DOMAIN captures : i < j => CaptureOrder(captures[i]) <= CaptureOrder(captures[j])

\* C36: each captures string is ordered q, r, b, n, p, the pieces on the board and the
\* letters of the two strings are 32 together, and a move adds to the mover's string
\* one letter if it takes a piece off the board (en passant included) and none
\* otherwise, and leaves the opponent's string as it is.
C36_CapturesAccountForEveryPiece ==
  /\ [](/\ \A color \in {"white", "black"} : InCaptureOrder(Captures(gameState)[color])
        /\ PiecesOnBoard(gameState) + Len(Captures(gameState)["white"])
             + Len(Captures(gameState)["black"]) = 32)
  /\ [][MoveStep =>
          /\ Len(Captures(gameState')[gameState.turn])
               = Len(Captures(gameState)[gameState.turn])
                   + (IF LastRecord(gameState').isCapture THEN 1 ELSE 0)
          /\ LastRecord(gameState').isCapture = (PiecesOnBoard(gameState') < PiecesOnBoard(gameState))
          /\ Captures(gameState')[Opponent(gameState.turn)]
               = Captures(gameState)[Opponent(gameState.turn)]]_vars

\* white has taken two pawns and then a knight, and black has just taken a queen
C36_Witness ==
  /\ MoveApplied
  /\ LastRecord(gameState).isCapture
  /\ Captures(gameState)["white"] = <<"n", "p", "p">>
  /\ Captures(gameState)["black"] = <<"q">>
  /\ PiecesOnBoard(gameState) = 28

(***************************************************************************)
(* Clock edits.  The player edits a clock at any time, plays the moves of  *)
(* FoolsMate, and presses the reset button at any time; the clocks tick.   *)
(***************************************************************************)
\* the times a player enters: five minutes
EditedTimes == {InitialTime \div 2}

\* a timerEdit listener that sets the time whether or not the game has started
timerEditAtAnyTime(gs, player, timeRemaining) ==
  [gs EXCEPT !.players[player].timeRemaining = timeRemaining]

\* gameState after the timerEdit listener of main.js has run
timerEdit(gs, player, timeRemaining) ==
  IF ~gs.gameHasStarted
  THEN [gs EXCEPT !.players[player].timeRemaining = timeRemaining]
  ELSE gs

\* the timerEdit event with detail {player, timeRemaining}
TimerEdit(player, timeRemaining) ==
  /\ gameState' = timerEdit(gameState, player, timeRemaining)
  /\ dispatched' = <<>>
  /\ synced' = FALSE
  /\ UNCHANGED <<orphans, pending, net>>

NextEdit ==
  \/ \E sq \in ClockInputs(gameState) : HandleSquareClick(sq[1], sq[2])
  \/ ResetGame
  \/ \E player \in {"white", "black"} : TimerTick(player)
  \/ \E player \in {"white", "black"}, timeRemaining \in EditedTimes : TimerEdit(player, timeRemaining)

SpecEdit == Init /\ [][NextEdit]_vars

(***************************************************************************)
(* C37: clock edits before the first move only                             *)
(***************************************************************************)
TimesLeft(gs) == [color \in {"white", "black"} |-> gs.players[color].timeRemaining]

\* the step is a timerEdit event
EditStep ==
  \E player \in {"white", "black"}, timeRemaining \in EditedTimes : TimerEdit(player, timeRemaining)

FileLetter(col) == <<"a", "b", "c", "d", "e", "f", "g", "h">>[col + 1]

RankDigit(row) == <<"8", "7", "6", "5", "4", "3", "2", "1">>[row + 1]

coordToAlgebraic(row, col) == FileLetter(col) \o RankDigit(row)

getPieceSymbol(pieceType) ==
  CASE pieceType = "k" -> "K" [] pieceType = "q" -> "Q" [] pieceType = "r" -> "R"
    [] pieceType = "b" -> "B" [] pieceType = "n" -> "N" [] OTHER -> ""

\* getDisambiguation that finds the file sufficient whenever another piece is listed
getDisambiguationByFile(move) ==
  IF move.ambiguousPieces = {} THEN "" ELSE FileLetter(move.fromCol)

\* getDisambiguation(move) of the move list
getDisambiguation(move) ==
  LET ambiguous == move.ambiguousPieces
      fromFile == FileLetter(move.fromCol)
      fromRank == RankDigit(move.fromRow)
      sameFilePieces == {p \in ambiguous : FileLetter(p.col) = fromFile}
      sameRankPieces == {p \in ambiguous : RankDigit(p.row) = fromRank}
  IN IF ambiguous = {} THEN ""
     ELSE IF sameFilePieces = {} THEN fromFile
     ELSE IF sameRankPieces = {} THEN fromRank
     ELSE fromFile \o fromRank

\* move.isCheckmate, which only the gameEnd listener sets
IsMarkedCheckmate(move) == "isCheckmate" \in DOMAIN move /\ move.isCheckmate

\* a suffix that puts the check before the checkmate
CheckSuffixCheckFirst(move) ==
  IF move.putsInCheck THEN "+" ELSE IF IsMarkedCheckmate(move) THEN "#" ELSE ""

\* the suffix for check and checkmate
CheckSuffix(move) == IF IsMarkedCheckmate(move) THEN "#" ELSE IF move.putsInCheck THEN "+" ELSE ""

\* formatMove(move) of the move list
formatMove(move) ==
  IF ReadFlag(move, "isCastling")
  THEN (IF move.toCol = 6 THEN "O-O" ELSE "O-O-O") \o CheckSuffix(move)
  ELSE LET pieceSymbol == getPieceSymbol(move.piece.type)
           toSquare == coordToAlgebraic(move.toRow, move.toCol)
           notation ==
             IF move.isCapture
             THEN IF move.piece.type = "p"
                  THEN FileLetter(move.fromCol) \o "x" \o toSquare
                  ELSE pieceSymbol \o getDisambiguation(move) \o "x" \o toSquare
             ELSE IF move.piece.type = "p" THEN toSquare
             ELSE pieceSymbol \o getDisambiguation(move) \o toSquare
           promotion == IF move.promotedPiece # Null
                        THEN "=" \o getPieceSymbol(move.promotedPiece) ELSE ""
       IN notation \o promotion \o CheckSuffix(move)

\* addMove(moveData)
addMove(moves, moveData) == Append(moves, moveData)

\* the gameEnd listener of the move list: a checkmate marks the last move
MarkCheckmate(moves, detail) ==
  IF detail.result = "checkmate" /\ moves # <<>>
  THEN [moves EXCEPT ![Len(moves)] = ("isCheckmate" :> TRUE) @@ @]
  ELSE moves

RECURSIVE MovesListed(_, _)
\* this.moves after the listeners of the move list have received the events in order
MovesListed(moves, events) ==
  IF events = <<>> THEN moves
  ELSE MovesListed(CASE Head(events).type = "moveMade" -> addMove(moves, Head(events).detail)
                     [] Head(events).type = "gameEnd" -> MarkCheckmate(moves, Head(events).detail)
                     [] Head(events).type = "gameReset" -> <<>>
                     [] OTHER -> moves,
                   Tail(events))

(***************************************************************************)
(* Positions with two or three pieces of a kind that reach the same        *)
(* square, given as they stand after a long game, white to move; every     *)
(* square is clicked.                                                      *)
(***************************************************************************)
\* knights on b1 and f3 that both reach d2; rooks on a1 and a5 that both reach a3;
\* queens on h4, e4 and h1 that all reach e1; knights on b1 and e4 of which the second
\* is pinned to the king on e1 by the rook on e8
NotationPositions ==
  {Endgame(Kings @@ (<<7, 1>> :> Man("n", "white")) @@ (<<5, 5>> :> Man("n", "white")), "white"),
   Endgame(Kings @@ (<<7, 0>> :> Man("r", "white")) @@ (<<3, 0>> :> Man("r", "white")), "white"),
   Endgame((<<6, 2>> :> Man("k", "white")) @@ (<<0, 1>> :> Man("k", "black"))
             @@ (<<4, 7>> :> Man("q", "white")) @@ (<<4, 4>> :> Man("q", "white"))
             @@ (<<7, 7>> :> Man("q", "white")), "white"),
   Endgame((<<7, 4>> :> Man("k", "white")) @@ (<<0, 7>> :> Man("k", "black"))
             @@ (<<7, 1>> :> Man("n", "white")) @@ (<<4, 4>> :> Man("n", "white"))
             @@ (<<0, 4>> :> Man("r", "black")), "white")}

\* longest continuation of such a position, in plies
NotationPly == 1

InitNotation ==
  /\ gameState \in NotationPositions
  /\ dispatched = <<>>
  /\ synced = FALSE
  /\ orphans = {}
  /\ pending = 0
  /\ net = PeersAtStart

NextNotation ==
  /\ Len(gameState.moveHistory) < NotationPly
  /\ \E row \in 0..7, col \in 0..7 : HandleSquareClick(row, col)

SpecNotation == InitNotation /\ [][NextNotation]_vars

(***************************************************************************)
(* C38: disambiguation                                                     *)
(***************************************************************************)
\* the squares of the other pieces of the kind and colour of the piece on from that can
\* legally move to the square
Rivals(gs, from, to) ==
  {sq \in Squares \ {from} :
     /\ gs.board[sq[1]][sq[2]].type = gs.board[from[1]][from[2]].type
     /\ gs.board[sq[1]][sq[2]].color = gs.board[from[1]][from[2]].color
     /\ \E m \in getLegalMoves(gs, sq[1], sq[2]) : m.row = to[1] /\ m.col = to[2]}

\* what the rule asks for: nothing without a rival, the file of origin if no rival
\* stands on it, else the rank of origin if no rival stands on it, else both
Disambiguated(from, rivals) ==
  IF rivals = {} THEN ""
  ELSE IF \A sq \in rivals : sq[2] # from[2] THEN FileLetter(from[2])
  ELSE IF \A sq \in rivals : sq[1] # from[1] THEN RankDigit(from[1])
  ELSE FileLetter(from[2]) \o RankDigit(from[1])

\* C38: for every move of a knight, bishop, rook or queen, the disambiguation that the
\* move list derives from the record of the move is the one the rule asks for in the
\* position the move was made in.
C38_DisambiguationFollowsTheRule ==
  [][MoveStep =>
       LET move == LastRecord(gameState')
           from == <<move.fromRow, move.fromCol>>
       IN move.piece.type \in {"n", "b", "r", "q"}
            => getDisambiguation(move)
                 = Disambiguated(from, Rivals(gameState, from, <<move.toRow, move.toCol>>))]_vars

\* the queen on h4 has moved to e1, which the queens on e4 and h1 reach as well: the
\* move is written Qh4e1
C38_Witness ==
  /\ MoveApplied
  /\ LastRecord(gameState).piece.type = "q"
  /\ Cardinality(LastRecord(gameState).ambiguousPieces) = 2
  /\ getDisambiguation(LastRecord(gameState)) = "h4"
  /\ formatMove(LastRecord(gameState)) = "Qh4e1"

(***************************************************************************)
(* C39: the events of a move and the mark of checkmate                     *)
(***************************************************************************)
\* the types of the events dispatched, in order
EventTypes == [i \in DOMAIN dispatched |-> dispatched[i].type]

\* the move list after the events of the last handler, starting from an empty list
Listed == MovesListed(<<>>, dispatched)

\* the notation of the move without a suffix
Unsuffixed(move) ==
  formatMove([key \in (DOMAIN move) \ {"isCheckmate"} |->
                IF key = "putsInCheck" THEN FALSE ELSE move[key]])

\* C39: makeMove dispatches moveMade, then turnChange, then gameEnd if and only if the
\* move ended the game; the move list then ends with the record of the move, which is
\* marked as checkmate exactly if the game ended by checkmate; a marked move is written
\* with '#' and without '+', an unmarked one with '+' exactly if it gives check.
C39_EventsInOrderAndMateMarked ==
  MoveApplied =>
     /\ EventTypes = IF gameState.gameOver THEN <<"moveMade", "turnChange", "gameEnd">>
                     ELSE <<"moveMade", "turnChange">>
     /\ Len(Listed) = 1
     /\ \A key \in DOMAIN LastRecord(gameState) : Listed[1][key] = LastRecord(gameState)[key]
     /\ IsMarkedCheckmate(Listed[1]) = (gameState.gameResult = "checkmate")
     /\ formatMove(Listed[1]) =
          Unsuffixed(Listed[1]) \o
            (IF gameState.gameResult = "checkmate" THEN "#"
             ELSE IF KingAttacked(gameState.board, gameState.turn) THEN "+" ELSE "")

\* the queen has mated on h4: gameEnd came third and the move is written Qh4#
C39_Witness ==
  /\ MoveApplied
  /\ gameState.gameResult = "checkmate"
  /\ EventTypes = <<"moveMade", "turnChange", "gameEnd">>
  /\ LastRecord(gameState).putsInCheck
  /\ formatMove(Listed[1]) = "Qh4#"

(***************************************************************************)
(* C40: the move history of live play                                      *)
(***************************************************************************)
\* C40: white is to move exactly if the number of recorded moves is even, moveCount is
\* that number, the players of the records are white and black in turn, and a handler
\* that makes a move appends one record to the history and leaves the earlier records
\* as they are.
C40_HistoryIsAppendOnlyAndAlternates ==
  /\ [](/\ (gameState.turn = "white") = (Len(gameState.moveHistory) % 2 = 0)
        /\ gameState.turn \in {"white", "black"}
        /\ gameState.moveCount = Len(gameState.moveHistory)
        /\ \A i \in DOMAIN gameState.moveHistory :
             gameState.moveHistory[i].player = IF i % 2 = 1 THEN "white" ELSE "black")
  /\ [][MoveApplied' => MoveStep]_vars

\* black has made the fourth move of a game
C40_Witness ==
  /\ MoveApplied
  /\ Len(gameState.moveHistory) = 4
  /\ gameState.moveCount = 4
  /\ LastRecord(gameState).player = "black"
  /\ gameState.turn = "white"

====
